---------------------------- MODULE Spec2Model ----------------------------
(***************************************************************************)
(* Model of the from-scratch PDF exporter (package pdfexport):             *)
(* Exporter.Export parses the text into styled blocks, word-wraps and      *)
(* paginates them, and pdfDocument.write serialises the pages as a PDF 1.4 *)
(* file that one os.WriteFile call puts on disk.                           *)
(*                                                                         *)
(* Representation.                                                         *)
(*  - A Go string is a sequence of runes (Unicode code points, integers);  *)
(*    its byte length is the sum of the runes' UTF-8 lengths (ByteLen).    *)
(*    The output buffer and the file are sequences of bytes (0..255).      *)
(*  - float64 millimetres are exact integers in units of 25 micrometres    *)
(*    (U): 1 mm = 40 U, so 1.5 mm = 60 U and a line of 10.5 pt is          *)
(*    10.5 * 0.45 mm = 4.725 mm = 189 U.  Font sizes are tenths of a       *)
(*    point (10.5 pt = 105).  The arithmetic is therefore exact decimal    *)
(*    arithmetic; the rounding of the float64 operations is not modelled.  *)
(*  - PDF points are integers in units of 1/800000 pt: one U is            *)
(*    0.025 mm * 2.83465 pt/mm = 56693/800000 pt.                          *)
(***************************************************************************)
EXTENDS Integers, Sequences, FiniteSets, TLC

VARIABLES
    content,         \* Export's argument: the text to export
    pc,              \* position of the Export call
    lines,           \* parseContent: the input split into lines
    i,               \* parseContent: loop index (0-based, as in the source)
    isFirstContent,  \* parseContent: no non-blank line seen yet
    blocks,          \* parseContent: the blocks appended so far
    bi,              \* Export: index of the block being laid out (1-based)
    curLines,        \* Export: wrapped lines of the block being laid out
    li,              \* Export: index of the next line of curLines to place
    pages,           \* doc.pages: each page is its sequence of text runs;
                     \* Export's `page` is the last one (nil when there is none)
    y,               \* Export: vertical cursor from the page top, in U
    buf,             \* write: the output buffer (bytes)
    offsets,         \* write: byte offset of each object written so far
    objectNum,       \* write: number of the last object written
    pgi,             \* write: index of the next page to serialise (0-based)
    xrefOffset,      \* write: byte offset of the xref keyword
    file,            \* the bytes at filePath on disk
    ioErr,           \* what os.WriteFile returned
    ret,             \* what Export returned
    wpc,             \* position of the wrapText experiment
    wText,           \* wrapText's argument text
    wWidth,          \* wrapText's argument maxWidthMM, in U
    wSize,           \* wrapText's argument fontSize, in tenths of a point
    wLines,          \* the lines wrapText returned for wText
    wAgain,          \* for each of these lines, what wrapText returns for it
    styles,          \* the package-level style variables, shared by all calls
    calls,           \* two concurrent Export calls: for each its locals
    files,           \* two concurrent Export calls: the bytes at each filePath
    epc,             \* position of the escapePDFString experiment
    eText,           \* escapePDFString's argument
    eOut,            \* what escapePDFString returned for eText
    handlers,        \* EventBus.handlers: for each event its handlers in order
    started,         \* the goroutines Publish has started: event, handler, data
    busLog,          \* the calls made on the EventBus, in order
    activeRequests,  \* App.activeRequests: for each requestID the cancel
                     \* function it holds (named by the call that made it), or 0
    gens,            \* the GenerateWithOllamaStream calls and their goroutines
    fileScript,      \* the calls made on the FileManager, one after another
    filePos,         \* how many of them have returned
    recentFiles,     \* FileManager.recentFiles
    savedRecent      \* the list in recent_files.json on disk

exportVars == <<content, pc, lines, i, isFirstContent, blocks, bi, curLines, li,
                pages, y, buf, offsets, objectNum, pgi, xrefOffset, file, ioErr, ret>>

wrapVars == <<wpc, wText, wWidth, wSize, wLines, wAgain>>

twoVars == <<styles, calls, files>>

escVars == <<epc, eText, eOut>>

busVars == <<handlers, started, busLog>>

genVars == <<activeRequests, gens>>

fileVars == <<fileScript, filePos, recentFiles, savedRecent>>

vars == <<exportVars, wrapVars, twoVars, escVars, busVars, genVars, fileVars>>

\* what a step of Export leaves alone, what a step of the wrapText experiment
\* does, what a step of two concurrent calls does, and what a step of the
\* escapePDFString experiment does; then the same for the EventBus, for the
\* generation requests and for the FileManager
notExport == <<wrapVars, twoVars, escVars, busVars, genVars, fileVars>>
notWrap == <<exportVars, twoVars, escVars, busVars, genVars, fileVars>>
notTwo == <<exportVars, wrapVars, escVars, busVars, genVars, fileVars>>
notEsc == <<exportVars, wrapVars, twoVars, busVars, genVars, fileVars>>
notBus == <<exportVars, wrapVars, twoVars, escVars, genVars, fileVars>>
notGen == <<exportVars, wrapVars, twoVars, escVars, busVars, fileVars>>
notFile == <<exportVars, wrapVars, twoVars, escVars, busVars, genVars>>

---------------------------------------------------------------------------
(* Sequence helpers.  Cat and Sum split their range in halves, so that     *)
(* their evaluation depth is logarithmic in the length of the text.        *)

RECURSIVE Cat(_, _, _)
Cat(F(_), lo, hi) ==
    IF lo > hi THEN <<>>
    ELSE IF lo = hi THEN F(lo)
    ELSE LET mid == (lo + hi) \div 2
         IN  Cat(F, lo, mid) \o Cat(F, mid + 1, hi)

RECURSIVE Sum(_, _, _)
Sum(F(_), lo, hi) ==
    IF lo > hi THEN 0
    ELSE IF lo = hi THEN F(lo)
    ELSE LET mid == (lo + hi) \div 2
         IN  Sum(F, lo, mid) + Sum(F, mid + 1, hi)

RECURSIVE Loop(_, _, _, _)
\* a for loop: the state after the iterations lo..hi, Step(state, k) being the
\* k-th iteration on state.  The comparison has the first half of the
\* iterations evaluated before the second half begins.
Loop(Step(_, _), lo, hi, state) ==
    IF lo > hi THEN state
    ELSE IF lo = hi THEN Step(state, lo)
    ELSE LET mid == (lo + hi) \div 2
             half == Loop(Step, lo, mid, state)
         IN  IF half = half THEN Loop(Step, mid + 1, hi, half) ELSE half

Rep(s, n) ==
    LET Piece(k) == s IN Cat(Piece, 1, n)

HasPrefix(s, prefix) ==
    Len(s) >= Len(prefix) /\ SubSeq(s, 1, Len(prefix)) = prefix

\* white space taken as the ASCII white space only
IsSpaceAscii(r) == r \in {9, 10, 11, 12, 13, 32}

\* unicode.IsSpace
IsSpace(r) ==
    \/ r \in {9, 10, 11, 12, 13, 32, 133, 160, 5760, 8232, 8233, 8239, 8287, 12288}
    \/ r \in 8192..8202

\* number of bytes of rune r in UTF-8
Utf8Len(r) ==
    IF r < 128 THEN 1 ELSE IF r < 2048 THEN 2 ELSE IF r < 65536 THEN 3 ELSE 4

\* len(s) of a Go string
ByteLen(s) ==
    LET L(k) == Utf8Len(s[k]) IN Sum(L, 1, Len(s))

\* strings.TrimSpace
TrimSpace(s) ==
    LET keep == {k \in 1..Len(s) : ~IsSpace(s[k])}
    IN  IF keep = {} THEN <<>>
        ELSE SubSeq(s, CHOOSE a \in keep : \A b \in 1..(a - 1) : IsSpace(s[b]),
                       CHOOSE a \in keep : \A b \in (a + 1)..Len(s) : IsSpace(s[b]))

\* strings.TrimLeft(s, cutset)
TrimLeft(s, cutset) ==
    LET keep == {k \in 1..Len(s) : s[k] \notin cutset}
    IN  IF keep = {} THEN <<>>
        ELSE SubSeq(s, CHOOSE a \in keep : \A b \in 1..(a - 1) : s[b] \in cutset,
                       Len(s))

\* strings.ReplaceAll(s, "\r\n", "\n")
ReplaceCRLF(s) ==
    LET Keep(k) == IF s[k] = 13 /\ k < Len(s) /\ s[k + 1] = 10 THEN <<>> ELSE <<s[k]>>
    IN  Cat(Keep, 1, Len(s))

\* strings.Split(s, "\n"): the pieces between the line feeds, never fewer than one
SplitLines(s) ==
    LET n == Len(s)
        IsStart(p) == p = 1 \/ s[p - 1] = 10
        End(p) == CHOOSE e \in p..(n + 1) :
                      /\ e = n + 1 \/ s[e] = 10
                      /\ \A k \in p..(e - 1) : s[k] # 10
        Piece(p) == IF IsStart(p) THEN <<SubSeq(s, p, End(p) - 1)>> ELSE <<>>
    IN  Cat(Piece, 1, n + 1)

---------------------------------------------------------------------------
(* Styles and page geometry.                                               *)

fontRegular == "/F1"
fontBold == "/F2"

styleTitle     == [fontName |-> fontBold,    fontSize |-> 180, indent |-> 0]
styleH1        == [fontName |-> fontBold,    fontSize |-> 160, indent |-> 0]
styleH2        == [fontName |-> fontBold,    fontSize |-> 140, indent |-> 0]
styleH3        == [fontName |-> fontBold,    fontSize |-> 120, indent |-> 0]
styleBody      == [fontName |-> fontRegular, fontSize |-> 105, indent |-> 0]
styleBullet    == [fontName |-> fontRegular, fontSize |-> 105, indent |-> 320]
styleSubBullet == [fontName |-> fontRegular, fontSize |-> 105, indent |-> 560]
styleNumbered  == [fontName |-> fontRegular, fontSize |-> 105, indent |-> 320]

pageWidthMM  == 8400      \* 210.0 mm
pageHeightMM == 11880     \* 297.0 mm
marginLeft   == 1000      \* 25.0 mm
marginRight  == 800       \* 20.0 mm
marginTop    == 1000      \* 25.0 mm
marginBottom == 1000      \* 25.0 mm
contentWidth == pageWidthMM - marginLeft - marginRight

\* 2.83465 pt per mm: one U is 56693 units of 1/800000 pt
ptPerU == 56693

\* the title heuristic's length threshold
titleMaxLen == 60

\* wrapText's floor for the characters per line
minChars == 20

---------------------------------------------------------------------------
(* parseContent: one loop iteration.                                       *)

Block(text, style, spaceBefore) ==
    [text |-> text, style |-> style, spaceBefore |-> spaceBefore]

IsDigit(r) == r \in 48..57

\* numberedListRe = ^\d+[\.\)]\s+ ; \s of Go's regexp is [\t\n\f\r ]
numberedListMatch(s) ==
    \E d \in 1..Len(s) :
        /\ \A k \in 1..d : IsDigit(s[k])
        /\ d + 2 <= Len(s)
        /\ s[d + 1] \in {46, 41}
        /\ s[d + 2] \in {9, 10, 12, 13, 32}

\* the title test without the look at the next line
isTitleLineAnyNext(ls, idx, trimmed) ==
    ByteLen(trimmed) < titleMaxLen

\* the title test made on the first line that is not blank:
\* len(trimmed) < 60 && i+1 < len(lines) && strings.TrimSpace(lines[i+1]) == ""
isTitleLine(ls, idx, trimmed) ==
    /\ ByteLen(trimmed) < titleMaxLen
    /\ idx + 1 <= Len(ls)
    /\ TrimSpace(ls[idx + 1]) = <<>>

\* the spacing-before of a heading growing with the number of its level
headingSpaceRising(level) == 120 + 40 * level

\* spaceBefore of the block of a "# ", "## " or "### " line: 6.0, 5.0 and
\* 4.0 mm, in U
headingSpace(level) == CASE level = 1 -> 240 [] level = 2 -> 200 [] level = 3 -> 160

\* isFirstContent never cleared: every line is tested as the first one
firstContentKept(first, line) == first

\* isFirstContent after the iteration for line: a blank line leaves it as it
\* is (continue at 152), any other line clears it (158, 168)
firstContentAfter(first, line) == first /\ TrimSpace(line) = <<>>

\* len(line) - len(strings.TrimLeft(line, " \t"))
leadingSpaces(line) == Len(line) - Len(TrimLeft(line, {32, 9}))

\* a sub-item only from three leading spaces or tabs on
isSubItemFromThree(line) == leadingSpaces(line) > 2

\* isSubItem := leadingSpaces >= 2
isSubItem(line) == leadingSpaces(line) >= 2

\* the package-level style variables (31-38), as one value
packageStyles ==
    [Title |-> styleTitle, H1 |-> styleH1, H2 |-> styleH2, H3 |-> styleH3,
     Body |-> styleBody, Bullet |-> styleBullet, SubBullet |-> styleSubBullet,
     Numbered |-> styleNumbered]

\* the style of a numbered item taken through a reference to the package
\* variable, so that the indent of a sub-item is stored in styleNumbered
numberedStyleShared(g, sub) ==
    LET g1 == IF sub THEN [g EXCEPT !.Numbered.indent = 560] ELSE g
    IN  [st |-> g1.Numbered, g |-> g1]

\* st := styleNumbered; if isSubItem { st.indent = 14 }
\* g is the value of the package-level styles; st is a copy, g is left alone
numberedStyle(g, sub) ==
    [st |-> IF sub THEN [g.Numbered EXCEPT !.indent = 560] ELSE g.Numbered,
     g |-> g]

\* One iteration of parseContent's loop, for line idx (1-based, the source's i
\* is idx - 1), the package-level styles having the value g: the blocks
\* (none or one) that it appends, and the value of the styles after it
parseLineIn(g, ls, idx, first) ==
    LET line == ls[idx]
        trimmed == TrimSpace(line)
        num == numberedStyle(g, isSubItem(line))
        One(block) == [blocks |-> <<block>>, g |-> g]
    IN  IF trimmed = <<>>
        THEN IF ~first THEN One(Block(<<>>, g.Body, 80)) ELSE [blocks |-> <<>>, g |-> g]
        ELSE IF first /\ isTitleLine(ls, idx, trimmed)
        THEN One(Block(trimmed, g.Title, 0))
        ELSE IF HasPrefix(trimmed, <<35, 35, 35, 32>>)           \* "### "
        THEN One(Block(SubSeq(trimmed, 5, Len(trimmed)), g.H3, headingSpace(3)))
        ELSE IF HasPrefix(trimmed, <<35, 35, 32>>)               \* "## "
        THEN One(Block(SubSeq(trimmed, 4, Len(trimmed)), g.H2, headingSpace(2)))
        ELSE IF HasPrefix(trimmed, <<35, 32>>)                   \* "# "
        THEN One(Block(SubSeq(trimmed, 3, Len(trimmed)), g.H1, headingSpace(1)))
        ELSE IF HasPrefix(trimmed, <<45, 32>>) \/ HasPrefix(trimmed, <<42, 32>>)  \* "- ", "* "
        THEN One(Block(<<45, 32, 32>> \o SubSeq(trimmed, 3, Len(trimmed)),
                       IF isSubItem(line) THEN g.SubBullet ELSE g.Bullet, 60))
        ELSE IF numberedListMatch(trimmed)
        THEN [blocks |-> <<Block(trimmed, num.st, 60)>>, g |-> num.g]
        ELSE One(Block(trimmed, g.Body, 60))

\* The blocks (none or one) that the iteration for line idx appends
parseLine(ls, idx, first) == parseLineIn(packageStyles, ls, idx, first).blocks

---------------------------------------------------------------------------
(* wrapText and splitWords.                                                *)

\* one iteration of splitWords' loop, on rune r
splitStep(st, r) ==
    IF IsSpace(r)
    THEN IF Len(st.currentWord) > 0
         THEN [words |-> Append(st.words, st.currentWord), currentWord |-> <<>>]
         ELSE st
    ELSE [st EXCEPT !.currentWord = Append(@, r)]

splitWords(text) ==
    LET Step(st, k) == splitStep(st, text[k])
        end == Loop(Step, 1, Len(text), [words |-> <<>>, currentWord |-> <<>>])
    IN  IF Len(end.currentWord) > 0 THEN Append(end.words, end.currentWord)
        ELSE end.words

\* int(maxWidthMM / (fontSize * 0.18)), floored at minChars;
\* maxWidthMM in U, fontSize in tenths of a point
maxCharsFor(maxWidthMM, fontSize) ==
    LET m == (maxWidthMM * 25) \div (18 * fontSize)
    IN  IF m < minChars THEN minChars ELSE m

\* the loop body with the count of a line started after a flush left at zero
\* instead of the length of the word
wrapStepUncounted(st, word, maxChars) ==
    LET wordLen == ByteLen(word)
        needsSpace == Len(st.currentLine) > 0
        additionalChars == IF needsSpace THEN wordLen + 1 ELSE wordLen
    IN  IF st.currentChars + additionalChars > maxChars /\ Len(st.currentLine) > 0
        THEN [lines |-> Append(st.lines, TrimSpace(st.currentLine)),
              currentLine |-> word,
              currentChars |-> 0]
        ELSE [lines |-> st.lines,
              currentLine |-> (IF needsSpace THEN Append(st.currentLine, 32)
                               ELSE st.currentLine) \o word,
              currentChars |-> (IF needsSpace THEN st.currentChars + 1
                                ELSE st.currentChars) + wordLen]

\* the loop body flushing the line already when the word would fill it
\* exactly: >= instead of >
wrapStepEarly(st, word, maxChars) ==
    LET wordLen == ByteLen(word)
        needsSpace == Len(st.currentLine) > 0
        additionalChars == IF needsSpace THEN wordLen + 1 ELSE wordLen
    IN  IF st.currentChars + additionalChars >= maxChars /\ Len(st.currentLine) > 0
        THEN [lines |-> Append(st.lines, TrimSpace(st.currentLine)),
              currentLine |-> word,
              currentChars |-> wordLen]
        ELSE [lines |-> st.lines,
              currentLine |-> (IF needsSpace THEN Append(st.currentLine, 32)
                               ELSE st.currentLine) \o word,
              currentChars |-> (IF needsSpace THEN st.currentChars + 1
                                ELSE st.currentChars) + wordLen]

\* one iteration of wrapText's loop over the words: currentLine is the line
\* being built, currentChars its length as the source counts it
wrapStep(st, word, maxChars) ==
    LET wordLen == ByteLen(word)
        needsSpace == Len(st.currentLine) > 0
        additionalChars == IF needsSpace THEN wordLen + 1 ELSE wordLen
    IN  IF st.currentChars + additionalChars > maxChars /\ Len(st.currentLine) > 0
        THEN [lines |-> Append(st.lines, TrimSpace(st.currentLine)),
              currentLine |-> word,
              currentChars |-> wordLen]
        ELSE [lines |-> st.lines,
              currentLine |-> (IF needsSpace THEN Append(st.currentLine, 32)
                               ELSE st.currentLine) \o word,
              currentChars |-> (IF needsSpace THEN st.currentChars + 1
                                ELSE st.currentChars) + wordLen]

wrapText(text, maxWidthMM, fontSize) ==
    IF TrimSpace(text) = <<>> THEN <<>>
    ELSE LET words == splitWords(text)
             maxChars == maxCharsFor(maxWidthMM, fontSize)
             Step(st, k) == wrapStep(st, words[k], maxChars)
             end == Loop(Step, 1, Len(words),
                         [lines |-> <<>>, currentLine |-> <<>>, currentChars |-> 0])
         IN  IF Len(words) = 0 THEN <<>>
             ELSE IF Len(end.currentLine) > 0
                  THEN Append(end.lines, TrimSpace(end.currentLine))
                  ELSE end.lines

---------------------------------------------------------------------------
(* The document and the layout loop of Export.                             *)

\* pdfDocument.addPage on doc.pages
addPage(pp) == Append(pp, <<>>)

\* addText taken to set the texts of the page to the one run
addTextAlone(pp, text, x, yy, fontSize, fontName) ==
    [pp EXCEPT ![Len(pp)] =
        <<[text |-> text, x |-> x, y |-> yy,
           fontSize |-> fontSize, fontName |-> fontName]>>]

\* pdfPage.addText on the last page of doc.pages (Export's `page`)
addText(pp, text, x, yy, fontSize, fontName) ==
    [pp EXCEPT ![Len(pp)] =
        Append(@, [text |-> text, x |-> x, y |-> yy,
                   fontSize |-> fontSize, fontName |-> fontName])]

\* style.fontSize * 0.45, in U
lineHeightOf(fontSize) == (fontSize * 9) \div 5

\* the block test taken as "does not leave room": >= instead of >
blockOverflowsInclusive(yy, blockHeight) == yy + blockHeight >= pageHeightMM - marginBottom

\* the block test left out: a block always starts on the current page
blockOverflowsNever(yy, blockHeight) == FALSE

\* y + blockHeight > pageHeightMM - marginBottom
blockOverflows(yy, blockHeight) == yy + blockHeight > pageHeightMM - marginBottom

\* the start of a block with the spacing-before added below the top margin
\* of the page that it starts
blockStartSpaced(pp, yy, spaceBefore, blockHeight) ==
    IF Len(pp) = 0 \/ blockOverflows(yy, blockHeight)
    THEN [pages |-> addPage(pp), y |-> marginTop + spaceBefore]
    ELSE [pages |-> pp, y |-> yy + spaceBefore]

\* if page == nil || y+blockHeight > pageHeightMM-marginBottom { newPage() }
\* else { y += block.spaceBefore }: doc.pages and y after it
blockStart(pp, yy, spaceBefore, blockHeight) ==
    IF Len(pp) = 0 \/ blockOverflows(yy, blockHeight)
    THEN [pages |-> addPage(pp), y |-> marginTop]
    ELSE [pages |-> pp, y |-> yy + spaceBefore]

\* a block without lines taken to start a page when its spacing does not fit
emptyBlockPaged(pp, yy, spaceBefore) ==
    IF Len(pp) > 0 /\ yy + spaceBefore > pageHeightMM - marginBottom
    THEN [pages |-> addPage(pp), y |-> marginTop]
    ELSE [pages |-> pp, y |-> IF Len(pp) > 0 THEN yy + spaceBefore ELSE yy]

\* a block without lines taken to add no spacing at all
emptyBlockUnspaced(pp, yy, spaceBefore) == [pages |-> pp, y |-> yy]

\* if len(lines) == 0 { if page != nil { y += spaceBefore }; continue }:
\* doc.pages and y after it
emptyBlock(pp, yy, spaceBefore) ==
    [pages |-> pp, y |-> IF Len(pp) > 0 THEN yy + spaceBefore ELSE yy]

\* the line test made on the top of the line only
lineOverflowsTop(yy, lineHeight) == yy > pageHeightMM - marginBottom

\* y + lineHeight > pageHeightMM - marginBottom
lineOverflows(yy, lineHeight) == yy + lineHeight > pageHeightMM - marginBottom

\* the lines of a block: wrapText(block.text, contentWidth - indent, fontSize)
blockLines(block) ==
    wrapText(block.text, contentWidth - block.style.indent, block.style.fontSize)

---------------------------------------------------------------------------
(* Formatting.                                                             *)

RECURSIVE Itoa(_)
\* strconv.Itoa and %d, for n >= 0
Itoa(n) == IF n < 10 THEN <<48 + n>> ELSE Append(Itoa(n \div 10), 48 + (n % 10))

\* %010d
Pad10(n) == LET d == Itoa(n) IN Rep(<<48>>, 10 - Len(d)) \o d

\* %.1f of a font size given in tenths of a point
FormatSize(fontSize) == Itoa(fontSize \div 10) \o <<46, 48 + (fontSize % 10)>>

\* %.2f of a coordinate given in 1/800000 pt: the nearest hundredth,
\* a tie going to the even one
FormatPt(v) ==
    LET q == v \div 8000
        r == v % 8000
        h == IF r > 4000 \/ (r = 4000 /\ q % 2 = 1) THEN q + 1 ELSE q
        frac == Itoa(h % 100)
    IN  Itoa(h \div 100) \o <<46>> \o Rep(<<48>>, 2 - Len(frac)) \o frac

fontBytes(fontName) == IF fontName = fontBold THEN <<47, 70, 50>> ELSE <<47, 70, 49>>

---------------------------------------------------------------------------
(* Content streams.                                                        *)

\* the switch without the case of the backslash, which is then kept as it is
escapeRuneRawBackslash(r) ==
    IF r = 40 THEN <<92, 40>>
    ELSE IF r = 41 THEN <<92, 41>>
    ELSE IF r = 13 THEN <<92, 114>>
    ELSE IF r = 10 THEN <<92, 110>>
    ELSE IF r = 9 THEN <<32, 32, 32, 32>>
    ELSE IF r >= 32 /\ r <= 126 THEN <<r>>
    ELSE <<>>

escapeRune(r) ==
    IF r = 92 THEN <<92, 92>>                 \* backslash
    ELSE IF r = 40 THEN <<92, 40>>            \* (
    ELSE IF r = 41 THEN <<92, 41>>            \* )
    ELSE IF r = 13 THEN <<92, 114>>           \* \r
    ELSE IF r = 10 THEN <<92, 110>>           \* \n
    ELSE IF r = 9 THEN <<32, 32, 32, 32>>     \* tab
    ELSE IF r >= 32 /\ r <= 126 THEN <<r>>
    ELSE <<>>

escapePDFString(s) ==
    LET E(k) == escapeRune(s[k]) IN Cat(E, 1, Len(s))

\* the bytes written for a run with the font selected only when its name
\* differs from the current one
runBytesNameOnly(text, currentFont, currentSize) ==
    (IF text.fontName # currentFont
     THEN fontBytes(text.fontName) \o <<32>> \o FormatSize(text.fontSize)
          \o <<32, 84, 102, 10>>
     ELSE <<>>)
    \o <<49, 32, 48, 32, 48, 32, 49, 32>>
    \o FormatPt(text.x) \o <<32>> \o FormatPt(text.y)
    \o <<32, 84, 109, 10>>
    \o <<40>> \o escapePDFString(text.text) \o <<41, 32, 84, 106, 10>>

\* one iteration of buildContentStream's loop: the bytes written for a run
\* when currentFont and currentSize are the selected font and size
runBytes(text, currentFont, currentSize) ==
    (IF text.fontName # currentFont \/ text.fontSize # currentSize
     THEN fontBytes(text.fontName) \o <<32>> \o FormatSize(text.fontSize)
          \o <<32, 84, 102, 10>>                                   \* " Tf\n"
     ELSE <<>>)
    \o <<49, 32, 48, 32, 48, 32, 49, 32>>                          \* "1 0 0 1 "
    \o FormatPt(text.x) \o <<32>> \o FormatPt(text.y)
    \o <<32, 84, 109, 10>>                                         \* " Tm\n"
    \o <<40>> \o escapePDFString(text.text) \o <<41, 32, 84, 106, 10>>   \* "(...) Tj\n"

\* one iteration of buildContentStream's loop
buildStep(st, text) ==
    [buf |-> st.buf \o runBytes(text, st.currentFont, st.currentSize),
     currentFont |-> text.fontName,
     currentSize |-> text.fontSize]

buildContentStream(texts) ==
    LET Step(st, k) == buildStep(st, texts[k])
        end == Loop(Step, 1, Len(texts),
                    [buf |-> <<66, 84, 10>>,                       \* "BT\n"
                     currentFont |-> "", currentSize |-> 0])
    IN  end.buf \o <<69, 84, 10>>                                  \* "ET\n"

---------------------------------------------------------------------------
(* compress/zlib.  The stream is a zlib stream (RFC 1950): the two header  *)
(* bytes 78 9C, a DEFLATE body, and the Adler-32 checksum of the data.     *)
(* The DEFLATE body is modelled as one stored block (RFC 1951, 3.2.4):     *)
(* the library's Huffman coding is replaced by the simplest encoding that  *)
(* every inflater accepts.  The data is shorter than 65536 bytes.          *)

RECURSIVE SumMod(_, _, _, _)
SumMod(F(_), lo, hi, m) ==
    IF lo > hi THEN 0
    ELSE IF lo = hi THEN F(lo) % m
    ELSE LET mid == (lo + hi) \div 2
         IN  (SumMod(F, lo, mid, m) + SumMod(F, mid + 1, hi, m)) % m

adlerBase == 65521

\* the four bytes of the Adler-32 checksum, most significant first
adler32(data) ==
    LET n == Len(data)
        D(k) == data[k]
        W(k) == ((n - k + 1) % adlerBase) * data[k]
        a == (1 + SumMod(D, 1, n, adlerBase)) % adlerBase
        b == (n + SumMod(W, 1, n, adlerBase)) % adlerBase
    IN  <<b \div 256, b % 256, a \div 256, a % 256>>

\* zlib.NewWriter: the header is written with the first data
zlibHeader == <<120, 156>>

\* w.Write(data): the data reaches the DEFLATE body
zlibBody(data) ==
    LET n == Len(data)
    IN  <<1, n % 256, n \div 256, 255 - (n % 256), 255 - (n \div 256)>> \o data

\* w.Close(): the last block is flushed and the checksum appended
zlibTrailer(data) == adler32(data)

\* compressStream without w.Close(): the checksum is never written
compressStreamNoClose(data) == zlibHeader \o zlibBody(data)

compressStream(data) == zlibHeader \o zlibBody(data) \o zlibTrailer(data)

\* zlib inflate of z: [ok |-> whether z is a complete stream, data |-> its content]
inflate(z) ==
    LET n == Len(z) - 11
    IN  IF /\ n >= 0
           /\ SubSeq(z, 1, 2) = <<120, 156>>
           /\ z[3] = 1
           /\ z[4] + 256 * z[5] = n
           /\ z[6] = 255 - z[4] /\ z[7] = 255 - z[5]
           /\ SubSeq(z, Len(z) - 3, Len(z)) = adler32(SubSeq(z, 8, 7 + n))
        THEN [ok |-> TRUE, data |-> SubSeq(z, 8, 7 + n)]
        ELSE [ok |-> FALSE, data |-> <<>>]

---------------------------------------------------------------------------
(* pdfDocument.write.                                                      *)

\* the closure state of write: the buffer, the offsets table, the counter
W(b, o, n) == [buf |-> b, offsets |-> o, objectNum |-> n]

\* writeObject recording the offset after the object header is written
writeObjectLate(w, objContent) ==
    W(w.buf \o Itoa(w.objectNum + 1) \o <<32, 48, 32, 111, 98, 106, 10>>
            \o objContent
            \o <<101, 110, 100, 111, 98, 106, 10>>,
      Append(w.offsets, Len(w.buf \o Itoa(w.objectNum + 1) \o <<32, 48, 32, 111, 98, 106, 10>>)),
      w.objectNum + 1)

writeObject(w, objContent) ==
    W(w.buf \o Itoa(w.objectNum + 1) \o <<32, 48, 32, 111, 98, 106, 10>>   \* " 0 obj\n"
            \o objContent
            \o <<101, 110, 100, 111, 98, 106, 10>>,                        \* "endobj\n"
      Append(w.offsets, Len(w.buf)),
      w.objectNum + 1)

writeStreamObject(w, header, streamData) ==
    W(w.buf \o Itoa(w.objectNum + 1) \o <<32, 48, 32, 111, 98, 106, 10>>   \* " 0 obj\n"
            \o header
            \o <<115, 116, 114, 101, 97, 109, 13, 10>>                     \* "stream\r\n"
            \o streamData
            \o <<13, 10, 101, 110, 100, 115, 116, 114, 101, 97, 109, 10>>  \* "\r\nendstream\n"
            \o <<101, 110, 100, 111, 98, 106, 10>>,                        \* "endobj\n"
      Append(w.offsets, Len(w.buf)),
      w.objectNum + 1)

\* "%PDF-1.4\n" and the comment line of four high-bit bytes
pdfHeader ==
    <<37, 80, 68, 70, 45, 49, 46, 52, 10>> \o <<37, 226, 227, 207, 211, 10>>

\* "<<\n/Type /Catalog\n/Pages 2 0 R\n>>\n"
catalogObject ==
    <<60, 60, 10, 47, 84, 121, 112, 101, 32, 47, 67, 97, 116, 97, 108, 111, 103, 10,
      47, 80, 97, 103, 101, 115, 32, 50, 32, 48, 32, 82, 10, 62, 62, 10>>

\* Kids numbered as if a page took one object
kidObjNumDense(k) == 3 + k

\* object number of page k (0-based) in the Kids array: 3 + i*2
kidObjNum(k) == 3 + k * 2

\* object number that page k's /Contents refers to: 4 + i*2
contentObjNum(k) == 4 + k * 2

\* strings.Join(pagesKids, " ") with pagesKids[i] = "<3+i*2> 0 R"
pagesKids(n) ==
    LET Kid(k) == (IF k > 0 THEN <<32>> ELSE <<>>)
                  \o Itoa(kidObjNum(k)) \o <<32, 48, 32, 82>>              \* " 0 R"
    IN  Cat(Kid, 0, n - 1)

\* "<<\n/Type /Pages\n/Kids [%s]\n/Count %d\n>>\n"
pagesObject(n) ==
    <<60, 60, 10, 47, 84, 121, 112, 101, 32, 47, 80, 97, 103, 101, 115, 10,
      47, 75, 105, 100, 115, 32, 91>>                              \* "<<\n/Type /Pages\n/Kids ["
    \o pagesKids(n)
    \o <<93, 10, 47, 67, 111, 117, 110, 116, 32>>                  \* "]\n/Count "
    \o Itoa(n)
    \o <<10, 62, 62, 10>>                                          \* "\n>>\n"

\* the Page dictionary with /Contents <num> 0 R and the two fonts
pageObject(num) ==
    <<60, 60, 10, 47, 84, 121, 112, 101, 32, 47, 80, 97, 103, 101, 10, 47, 80, 97,
      114, 101, 110, 116, 32, 50, 32, 48, 32, 82, 10, 47, 77, 101, 100, 105, 97, 66,
      111, 120, 32, 91, 48, 32, 48, 32, 53, 57, 53, 46, 50, 56, 32, 56, 52, 49, 46,
      56, 57, 93, 10, 47, 67, 111, 110, 116, 101, 110, 116, 115, 32>>
          \* "<<\n/Type /Page\n/Parent 2 0 R\n/MediaBox [0 0 595.28 841.89]\n/Contents "
    \o Itoa(num)
    \o <<32, 48, 32, 82, 10, 47, 82, 101, 115, 111, 117, 114, 99, 101, 115, 32, 60,
         60, 10, 47, 70, 111, 110, 116, 32, 60, 60, 10>>
          \* " 0 R\n/Resources <<\n/Font <<\n"
    \o <<47, 70, 49, 32, 60, 60, 32, 47, 84, 121, 112, 101, 32, 47, 70, 111, 110,
         116, 32, 47, 83, 117, 98, 116, 121, 112, 101, 32, 47, 84, 121, 112, 101,
         49, 32, 47, 66, 97, 115, 101, 70, 111, 110, 116, 32, 47, 72, 101, 108, 118,
         101, 116, 105, 99, 97, 32, 62, 62, 10>>
          \* "/F1 << /Type /Font /Subtype /Type1 /BaseFont /Helvetica >>\n"
    \o <<47, 70, 50, 32, 60, 60, 32, 47, 84, 121, 112, 101, 32, 47, 70, 111, 110,
         116, 32, 47, 83, 117, 98, 116, 121, 112, 101, 32, 47, 84, 121, 112, 101,
         49, 32, 47, 66, 97, 115, 101, 70, 111, 110, 116, 32, 47, 72, 101, 108, 118,
         101, 116, 105, 99, 97, 45, 66, 111, 108, 100, 32, 62, 62, 10>>
          \* "/F2 << /Type /Font /Subtype /Type1 /BaseFont /Helvetica-Bold >>\n"
    \o <<62, 62, 10, 62, 62, 10, 62, 62, 10>>                      \* ">>\n>>\n>>\n"

\* "<<\n/Length %d\n/Filter /FlateDecode\n>>\n"
streamHeader(length) ==
    <<60, 60, 10, 47, 76, 101, 110, 103, 116, 104, 32>>            \* "<<\n/Length "
    \o Itoa(length)
    \o <<10, 47, 70, 105, 108, 116, 101, 114, 32, 47, 70, 108, 97, 116, 101, 68, 101,
         99, 111, 100, 101, 10, 62, 62, 10>>                       \* "\n/Filter /FlateDecode\n>>\n"

\* the page loop declaring the length of the uncompressed content stream
writePageRawLength(w, k, texts) ==
    LET compressed == compressStream(buildContentStream(texts))
        w1 == writeObject(w, pageObject(contentObjNum(k)))
    IN  writeStreamObject(w1, streamHeader(Len(buildContentStream(texts))), compressed)

\* one iteration of the page loop: the Page object, then its content stream
\* whose dictionary declares len(compressed)
writePage(w, k, texts) ==
    LET compressed == compressStream(buildContentStream(texts))
        w1 == writeObject(w, pageObject(contentObjNum(k)))
    IN  writeStreamObject(w1, streamHeader(Len(compressed)), compressed)

\* xrefTable with the subsection header counting the objects only
xrefTableObjectsOnly(offs, num) ==
    LET Entry(k) == Pad10(offs[k]) \o <<32, 48, 48, 48, 48, 48, 32, 110, 32, 10>>
    IN  <<120, 114, 101, 102, 10>>
        \o <<48, 32>> \o Itoa(num) \o <<10>>
        \o <<48, 48, 48, 48, 48, 48, 48, 48, 48, 48, 32, 54, 53, 53, 51, 53, 32, 102,
             32, 10>>
        \o Cat(Entry, 1, Len(offs))

\* the cross-reference table
xrefTable(offs, num) ==
    LET Entry(k) == Pad10(offs[k]) \o <<32, 48, 48, 48, 48, 48, 32, 110, 32, 10>>   \* " 00000 n \n"
    IN  <<120, 114, 101, 102, 10>>                                 \* "xref\n"
        \o <<48, 32>> \o Itoa(num + 1) \o <<10>>                   \* "0 %d\n"
        \o <<48, 48, 48, 48, 48, 48, 48, 48, 48, 48, 32, 54, 53, 53, 51, 53, 32, 102,
             32, 10>>                                              \* "0000000000 65535 f \n"
        \o Cat(Entry, 1, Len(offs))

\* trailerBytes with the end-of-file line passed through a format: "%EOF\n"
trailerBytesFormatted(num, xrefOff) ==
    <<116, 114, 97, 105, 108, 101, 114, 10>>
    \o <<60, 60, 10, 47, 83, 105, 122, 101, 32>> \o Itoa(num + 1)
    \o <<10, 47, 82, 111, 111, 116, 32, 49, 32, 48, 32, 82, 10, 62, 62, 10>>
    \o <<115, 116, 97, 114, 116, 120, 114, 101, 102, 10>>
    \o Itoa(xrefOff) \o <<10>>
    \o <<37, 69, 79, 70, 10>>

\* the trailer and startxref, the end-of-file line not yet in the buffer
trailerBytesNoEOF(num, xrefOff) ==
    <<116, 114, 97, 105, 108, 101, 114, 10>>
    \o <<60, 60, 10, 47, 83, 105, 122, 101, 32>> \o Itoa(num + 1)
    \o <<10, 47, 82, 111, 111, 116, 32, 49, 32, 48, 32, 82, 10, 62, 62, 10>>
    \o <<115, 116, 97, 114, 116, 120, 114, 101, 102, 10>>
    \o Itoa(xrefOff) \o <<10>>

\* the trailer, startxref and the end-of-file line
trailerBytes(num, xrefOff) ==
    <<116, 114, 97, 105, 108, 101, 114, 10>>                       \* "trailer\n"
    \o <<60, 60, 10, 47, 83, 105, 122, 101, 32>> \o Itoa(num + 1)  \* "<<\n/Size %d"
    \o <<10, 47, 82, 111, 111, 116, 32, 49, 32, 48, 32, 82, 10, 62, 62, 10>>   \* "\n/Root 1 0 R\n>>\n"
    \o <<115, 116, 97, 114, 116, 120, 114, 101, 102, 10>>          \* "startxref\n"
    \o Itoa(xrefOff) \o <<10>>
    \o <<37, 37, 69, 79, 70, 10>>                                  \* "%%EOF\n"

\* what pdfDocument.write returns: the error of os.WriteFile
writeResult(err) == err

\* Export dropping the result of doc.write
exportResultDropped(err) == "nil"

\* what Export returns: the result of doc.write
exportResult(err) == err

---------------------------------------------------------------------------
(* The call as a function of its input: what Export builds from a content  *)
(* when nothing else runs.                                                 *)

\* parseContent, starting with the package-level styles as initialised
parseContent(c) ==
    LET ls == SplitLines(ReplaceCRLF(c))
        Step(st, k) ==
            LET r == parseLineIn(st.g, ls, k, st.first)
            IN  [blocks |-> st.blocks \o r.blocks,
                 first |-> firstContentAfter(st.first, ls[k]),
                 g |-> r.g]
    IN  Loop(Step, 1, Len(ls),
             [blocks |-> <<>>, first |-> TRUE, g |-> packageStyles]).blocks

\* one iteration of the loop over the lines of a block; st is doc.pages and y
placeStep(st, line, style) ==
    LET lineHeight == lineHeightOf(style.fontSize)
        over == lineOverflows(st.y, lineHeight)
        pages0 == IF over THEN addPage(st.pages) ELSE st.pages
        y0 == IF over THEN marginTop ELSE st.y
        xPt == (marginLeft + style.indent) * ptPerU
        yPt == (pageHeightMM - y0) * ptPerU
    IN  [pages |-> addText(pages0, line, xPt, yPt, style.fontSize, style.fontName),
         y |-> y0 + lineHeight]

\* one iteration of the loop over the blocks; st is doc.pages and y
layoutStep(st, block) ==
    LET spaceBefore == block.spaceBefore
        ls == blockLines(block)
        lineHeight == lineHeightOf(block.style.fontSize)
        blockHeight == spaceBefore + Len(ls) * lineHeight
        start == blockStart(st.pages, st.y, spaceBefore, blockHeight)
        Step(s, k) == placeStep(s, ls[k], block.style)
    IN  IF Len(ls) = 0
        THEN emptyBlock(st.pages, st.y, spaceBefore)
        ELSE Loop(Step, 1, Len(ls), start)

\* the loop over the blocks: doc.pages when it ends
layoutBlocks(bs) ==
    LET Step(st, k) == layoutStep(st, bs[k])
    IN  Loop(Step, 1, Len(bs), [pages |-> <<>>, y |-> 0]).pages

\* pdfDocument.write up to its call of os.WriteFile: the bytes of the buffer
documentBytes(pp) ==
    LET w1 == writeObject(W(pdfHeader, <<>>, 0), catalogObject)
        w2 == writeObject(w1, pagesObject(Len(pp)))
        Step(w, k) == writePage(w, k - 1, pp[k])
        w3 == Loop(Step, 1, Len(pp), w2)
    IN  w3.buf \o xrefTable(w3.offsets, w3.objectNum)
               \o trailerBytes(w3.objectNum, Len(w3.buf))

\* the bytes Export hands to os.WriteFile for content c
exportBytes(c) == documentBytes(layoutBlocks(parseContent(c)))

---------------------------------------------------------------------------
(* The inputs.                                                             *)

MaxLines == 2     \* lines of a short input
MaxTail == 47     \* trailing heading lines of a long input

\* the lines that short inputs are made of
LinePool ==
    { <<>>,                                              \* ""
      <<32, 9>>,                                         \* " \t"
      <<160>>,                                           \* a no-break space
      <<97, 13>>,                                        \* "a\r"
      <<84, 105, 116, 108, 101>>,                        \* "Title"
      <<35, 32, 72>>,                                    \* "# H"
      <<45, 32, 40, 98, 41, 92>>,                        \* "- (b)\"
      <<32, 32, 42, 32, 233, 9, 110>>,                   \* "  * e'<tab>n"
      <<49, 46, 32, 120>>,                               \* "1. x"
      Rep(<<102, 105, 108, 108, 101, 114, 32>>, 13) }    \* "filler " 13 times

RECURSIVE JoinLines(_)
\* the lines of ls, a line feed between two of them
JoinLines(ls) ==
    IF Len(ls) = 0 THEN <<>>
    ELSE IF Len(ls) = 1 THEN ls[1]
    ELSE ls[1] \o <<10>> \o JoinLines(Tail(ls))

ShortInputs ==
    { JoinLines(ls) : ls \in UNION { [1..n -> LinePool] : n \in 0..MaxLines } }

\* a first-level heading of 60 bytes (too long to be taken as the title), a
\* blank line, eight lines "a", then k lines "### a": with k = 20 the last
\* heading ends exactly at the bottom margin of the first page
LongInput(k) ==
    <<35, 32>> \o Rep(<<97>>, 58) \o <<10, 10>>
    \o Rep(<<97, 10>>, 8) \o Rep(<<35, 35, 35, 32, 97, 10>>, k)

LongInputs == { LongInput(k) : k \in 0..MaxTail }

\* "Title", a blank line, "Body text here."
TitleInput ==
    <<84, 105, 116, 108, 101, 10, 10,
      66, 111, 100, 121, 32, 116, 101, 120, 116, 32, 104, 101, 114, 101, 46>>

\* first lines at the title test's edges: 59 and 60 bytes before a blank
\* line, 30 two-byte letters (60 bytes) before a blank line, 59 bytes before
\* a line of text, 59 bytes as the only line, and a blank line first
TitleEdgeInputs ==
    { Rep(<<97>>, 59) \o <<10, 10, 98>>,
      Rep(<<97>>, 60) \o <<10, 10, 98>>,
      Rep(<<233>>, 30) \o <<10, 10, 98>>,
      Rep(<<97>>, 59) \o <<10, 98, 10>>,
      Rep(<<97>>, 59),
      <<10, 32, 10>> \o Rep(<<97>>, 59) \o <<10, 32, 9, 10, 98, 10, 10, 99>> }

\* "# Heading", then one line of 500 times "filler word "
HeadingInput ==
    <<35, 32, 72, 101, 97, 100, 105, 110, 103, 10>>
    \o Rep(<<102, 105, 108, 108, 101, 114, 32, 119, 111, 114, 100, 32>>, 500)

\* "- item", "  - nested", "* star", "<tab><tab>3) sub", " 1. one"
ListInput ==
    <<45, 32, 105, 116, 101, 109, 10,
      32, 32, 45, 32, 110, 101, 115, 116, 101, 100, 10,
      42, 32, 115, 116, 97, 114, 10,
      9, 9, 51, 41, 32, 115, 117, 98, 10,
      32, 49, 46, 32, 111, 110, 101>>

\* "body", "# A", "## B", "### C", "- d", "1. e", "", "# F", "### G"
SpacingInput ==
    <<98, 111, 100, 121, 10, 35, 32, 65, 10, 35, 35, 32, 66, 10,
      35, 35, 35, 32, 67, 10, 45, 32, 100, 10, 49, 46, 32, 101, 10, 10,
      35, 32, 70, 10, 35, 35, 35, 32, 71>>

\* "a", 140 blank lines, "b": the spacing of the blank lines carries y
\* beyond the bottom margin of the first page and beyond the page
SpacerInput == <<97>> \o Rep(<<10>>, 141) \o <<98>>

\* "T", "", "# H", "## I", "## J": bold runs of 18, 16, 14 and 14 pt
FontInput ==
    <<84, 10, 10, 35, 32, 72, 10, 35, 35, 32, 73, 10, 35, 35, 32, 74>>

ScenarioInputs ==
    {TitleInput, HeadingInput, ListInput, FontInput, SpacingInput, SpacerInput}
    \cup TitleEdgeInputs

Inputs == ShortInputs \cup LongInputs \cup ScenarioInputs

\* the file at filePath before the call
OldFile == <<111, 108, 100>>

---------------------------------------------------------------------------
(* The application around the exporter: its EventBus, its generation       *)
(* requests and its FileManager, as NewApp leaves them.                    *)

\* the event names that calls are made with
Events == {"file.save", "ai.stream.done"}

\* the handler functions that are subscribed
HandlerPool == {"h1", "h2"}

\* the request identifiers the frontend passes
RequestIDs == {"r1", "r2"}

\* NewEventBus: no handler for any event, and nothing published
BusIdle ==
    /\ handlers = [e \in Events |-> <<>>]
    /\ started = <<>>
    /\ busLog = <<>>

\* NewApp: activeRequests is an empty map
GenIdle ==
    /\ activeRequests = [r \in RequestIDs |-> 0]
    /\ gens = <<>>

\* NewFileManager: recentFiles is empty and nothing has been saved; script
\* is the sequence of calls that will be made
FileIdle(script) ==
    /\ fileScript = script
    /\ filePos = 0
    /\ recentFiles = <<>>
    /\ savedRecent = <<>>

\* no call is made on any of the three
AppIdle == BusIdle /\ GenIdle /\ FileIdle(<<>>)

---------------------------------------------------------------------------
(* The Export call, step by step.                                          *)

\* Export has not been called
ExportIdle(c, p) ==
    /\ content = c
    /\ pc = p
    /\ lines = <<>>
    /\ i = 0
    /\ isFirstContent = TRUE
    /\ blocks = <<>>
    /\ bi = 1
    /\ curLines = <<>>
    /\ li = 1
    /\ pages = <<>>
    /\ y = 0
    /\ buf = <<>>
    /\ offsets = <<>>
    /\ objectNum = 0
    /\ pgi = 0
    /\ xrefOffset = 0
    /\ file = OldFile
    /\ ioErr = "nil"
    /\ ret = "none"

\* wrapText is not being tried
WrapIdle(p, text, width, size) ==
    /\ wpc = p
    /\ wText = text
    /\ wWidth = width
    /\ wSize = size
    /\ wLines = <<>>
    /\ wAgain = <<>>

\* no two calls are running: the package is as initialised
TwoIdle ==
    /\ styles = packageStyles
    /\ calls = <<>>
    /\ files = <<>>

\* escapePDFString is not being tried
EscIdle(p, text) ==
    /\ epc = p
    /\ eText = text
    /\ eOut = <<>>

Init ==
    /\ \E c \in Inputs : ExportIdle(c, "start")
    /\ WrapIdle("idle", <<>>, 0, 0)
    /\ TwoIdle
    /\ EscIdle("idle", <<>>)
    /\ AppIdle

\* Export calls parseContent, which splits the content into lines
ParseStart ==
    /\ pc = "start"
    /\ UNCHANGED notExport
    /\ lines' = SplitLines(ReplaceCRLF(content))
    /\ pc' = "parse"
    /\ UNCHANGED <<content, i, isFirstContent, blocks, bi, curLines, li, pages, y,
                   buf, offsets, objectNum, pgi, xrefOffset, file, ioErr, ret>>

\* one iteration of parseContent's loop
ParseLine ==
    /\ pc = "parse"
    /\ UNCHANGED notExport
    /\ i < Len(lines)
    /\ blocks' = blocks \o parseLine(lines, i + 1, isFirstContent)
    /\ isFirstContent' = firstContentAfter(isFirstContent, lines[i + 1])
    /\ i' = i + 1
    /\ UNCHANGED <<content, pc, lines, bi, curLines, li, pages, y,
                   buf, offsets, objectNum, pgi, xrefOffset, file, ioErr, ret>>

\* parseContent returns its blocks
ParseDone ==
    /\ pc = "parse"
    /\ UNCHANGED notExport
    /\ i >= Len(lines)
    /\ pc' = "layout"
    /\ UNCHANGED <<content, lines, i, isFirstContent, blocks, bi, curLines, li, pages, y,
                   buf, offsets, objectNum, pgi, xrefOffset, file, ioErr, ret>>

\* the head of one iteration of the loop over the blocks: wrap the text,
\* skip an empty block, decide whether the block starts a new page
LayoutBlock ==
    /\ pc = "layout"
    /\ UNCHANGED notExport
    /\ bi <= Len(blocks)
    /\ LET block == blocks[bi]
           spaceBefore == block.spaceBefore
           ls == blockLines(block)
           lineHeight == lineHeightOf(block.style.fontSize)
           blockHeight == spaceBefore + Len(ls) * lineHeight
       IN  IF Len(ls) = 0
           THEN /\ pages' = emptyBlock(pages, y, spaceBefore).pages
                /\ y' = emptyBlock(pages, y, spaceBefore).y
                /\ bi' = bi + 1
                /\ UNCHANGED <<pc, curLines, li>>
           ELSE /\ pages' = blockStart(pages, y, spaceBefore, blockHeight).pages
                /\ y' = blockStart(pages, y, spaceBefore, blockHeight).y
                /\ curLines' = ls
                /\ li' = 1
                /\ pc' = "lines"
                /\ UNCHANGED bi
    /\ UNCHANGED <<content, lines, i, isFirstContent, blocks,
                   buf, offsets, objectNum, pgi, xrefOffset, file, ioErr, ret>>

\* one iteration of the loop over the lines of the block
PlaceLine ==
    /\ pc = "lines"
    /\ UNCHANGED notExport
    /\ li <= Len(curLines)
    /\ LET style == blocks[bi].style
           lineHeight == lineHeightOf(style.fontSize)
           over == lineOverflows(y, lineHeight)
           pages0 == IF over THEN addPage(pages) ELSE pages
           y0 == IF over THEN marginTop ELSE y
           xPt == (marginLeft + style.indent) * ptPerU
           yPt == (pageHeightMM - y0) * ptPerU
       IN  /\ pages' = addText(pages0, curLines[li], xPt, yPt, style.fontSize, style.fontName)
           /\ y' = y0 + lineHeight
    /\ IF li = Len(curLines)
       THEN /\ bi' = bi + 1
            /\ curLines' = <<>>
            /\ li' = 1
            /\ pc' = "layout"
       ELSE /\ li' = li + 1
            /\ UNCHANGED <<bi, curLines, pc>>
    /\ UNCHANGED <<content, lines, i, isFirstContent, blocks,
                   buf, offsets, objectNum, pgi, xrefOffset, file, ioErr, ret>>

\* Export calls doc.write, which writes the header, the Catalog and the Pages object
WriteHead ==
    /\ pc = "layout"
    /\ UNCHANGED notExport
    /\ bi > Len(blocks)
    /\ LET w1 == writeObject(W(pdfHeader, <<>>, 0), catalogObject)
           w2 == writeObject(w1, pagesObject(Len(pages)))
       IN  /\ buf' = w2.buf
           /\ offsets' = w2.offsets
           /\ objectNum' = w2.objectNum
    /\ pgi' = 0
    /\ pc' = "pages"
    /\ UNCHANGED <<content, lines, i, isFirstContent, blocks, bi, curLines, li, pages, y,
                   xrefOffset, file, ioErr, ret>>

\* one iteration of write's loop over the pages
WritePage ==
    /\ pc = "pages"
    /\ UNCHANGED notExport
    /\ pgi < Len(pages)
    /\ LET w == writePage(W(buf, offsets, objectNum), pgi, pages[pgi + 1])
       IN  /\ buf' = w.buf
           /\ offsets' = w.offsets
           /\ objectNum' = w.objectNum
    /\ pgi' = pgi + 1
    /\ UNCHANGED <<content, pc, lines, i, isFirstContent, blocks, bi, curLines, li, pages, y,
                   xrefOffset, file, ioErr, ret>>

\* the cross-reference table and the trailer
WriteXref ==
    /\ pc = "pages"
    /\ UNCHANGED notExport
    /\ pgi >= Len(pages)
    /\ xrefOffset' = Len(buf)
    /\ buf' = buf \o xrefTable(offsets, objectNum) \o trailerBytes(objectNum, Len(buf))
    /\ pc' = "file"
    /\ UNCHANGED <<content, lines, i, isFirstContent, blocks, bi, curLines, li, pages, y,
                   offsets, objectNum, pgi, file, ioErr, ret>>

\* os.WriteFile(filePath, buf.Bytes(), 0644), and the return of write and of Export.
\* The call either writes the whole buffer, or fails before the file is opened,
\* or fails after the file was truncated and part of the buffer written.
WriteFile ==
    /\ pc = "file"
    /\ UNCHANGED notExport
    /\ \/ /\ file' = buf
          /\ ioErr' = "nil"
       \/ /\ file' = file
          /\ ioErr' \in {"ENOENT", "EACCES"}
       \/ /\ \E n \in {0, Len(buf) \div 2} : file' = SubSeq(buf, 1, n)
          /\ ioErr' = "ENOSPC"
    /\ ret' = exportResult(writeResult(ioErr'))
    /\ pc' = "done"
    /\ UNCHANGED <<content, lines, i, isFirstContent, blocks, bi, curLines, li, pages, y,
                   buf, offsets, objectNum, pgi, xrefOffset>>

Next ==
    \/ ParseStart
    \/ ParseLine
    \/ ParseDone
    \/ LayoutBlock
    \/ PlaceLine
    \/ WriteHead
    \/ WritePage
    \/ WriteXref
    \/ WriteFile

Spec == Init /\ [][Next]_vars

\* Export is straight-line code over loops that end: a call that has not
\* returned goes on taking steps, and one that has reached os.WriteFile
\* performs it.  Next is enabled exactly when pc is not "done", so the first
\* condition is WF_vars(Next) with its enabledness spelled out.
SpecFair ==
    /\ Spec
    /\ []<>(pc = "done") \/ []<><<Next>>_vars
    /\ WF_vars(WriteFile)

---------------------------------------------------------------------------
(* wrapText on its own: a text is wrapped, then each returned line is      *)
(* wrapped again with the same width and font size.                        *)

MaxWords == 3     \* words of a text given to wrapText

\* words of 1, 9, 10, 20 and 21 bytes, and a word of two runes that is four bytes
WordPool ==
    { <<97>>,
      Rep(<<98>>, 9),
      Rep(<<99>>, 10),
      Rep(<<100>>, 20),
      Rep(<<101>>, 21),
      <<233, 233>> }

RECURSIVE JoinWords(_, _)
\* the words of ws with sep between two of them
JoinWords(ws, sep) ==
    IF Len(ws) = 0 THEN <<>>
    ELSE IF Len(ws) = 1 THEN ws[1]
    ELSE ws[1] \o sep \o JoinWords(Tail(ws), sep)

\* the words separated by one space, and the words separated by a tab and a
\* no-break space with white space before the first and after the last
WrapTexts ==
    LET Ws == UNION { [1..n -> WordPool] : n \in 0..MaxWords }
    IN  { JoinWords(ws, <<32>>) : ws \in Ws }
        \cup { <<32, 9>> \o JoinWords(ws, <<9, 160>>) \o <<10>> : ws \in Ws }

\* <<maxWidthMM in U, fontSize in tenths of a point>>: a width of zero (the
\* floor of 20), 47.5 mm of body text (25) and the content width of a title (50)
WrapCases == { <<0, 105>>, <<1900, 105>>, <<contentWidth, 180>> }

InitWrap ==
    /\ ExportIdle(<<>>, "idle")
    /\ TwoIdle
    /\ EscIdle("idle", <<>>)
    /\ AppIdle
    /\ \E text \in WrapTexts, c \in WrapCases : WrapIdle("input", text, c[1], c[2])

\* lines := e.wrapText(text, maxWidthMM, fontSize)
WrapOnce ==
    /\ wpc = "input"
    /\ wLines' = wrapText(wText, wWidth, wSize)
    /\ wpc' = "wrapped"
    /\ UNCHANGED <<wText, wWidth, wSize, wAgain>>
    /\ UNCHANGED notWrap

\* e.wrapText(L, maxWidthMM, fontSize) for each returned line L
WrapAgain ==
    /\ wpc = "wrapped"
    /\ wAgain' = [k \in 1..Len(wLines) |-> wrapText(wLines[k], wWidth, wSize)]
    /\ wpc' = "done"
    /\ UNCHANGED <<wText, wWidth, wSize, wLines>>
    /\ UNCHANGED notWrap

NextWrap ==
    \/ WrapOnce
    \/ WrapAgain

SpecWrap == InitWrap /\ [][NextWrap]_vars

---------------------------------------------------------------------------
(* escapePDFString on its own.                                             *)

MaxRunes == 3     \* runes of a text given to escapePDFString

\* backslash, parentheses, carriage return, line feed, tab, space, letters
\* (A, n, r), tilde, DEL, two control characters, and two runes beyond ASCII
RunePool == {92, 40, 41, 13, 10, 9, 32, 65, 110, 114, 126, 127, 31, 0, 233, 8364}

EscTexts == UNION { [1..n -> RunePool] : n \in 0..MaxRunes }

InitEsc ==
    /\ ExportIdle(<<>>, "idle")
    /\ WrapIdle("idle", <<>>, 0, 0)
    /\ TwoIdle
    /\ \E t \in EscTexts : EscIdle("input", t)
    /\ AppIdle

\* out := escapePDFString(text)
EscapeOnce ==
    /\ epc = "input"
    /\ eOut' = escapePDFString(eText)
    /\ epc' = "done"
    /\ UNCHANGED eText
    /\ UNCHANGED notEsc

NextEsc == EscapeOnce

SpecEsc == InitEsc /\ [][NextEsc]_vars

---------------------------------------------------------------------------
(* Two Export calls running at the same time, each on its own content and  *)
(* its own path.  All that the calls have in common is the package-level   *)
(* variables; a step of a call is one iteration of parseContent's loop,    *)
(* the only place that uses them, or one of the stages after it.           *)

Calls == {1, 2}

\* contents with numbered items, plain and indented, bullets and a title
TwoInputs ==
    { <<49, 46, 32, 120>>,                                     \* "1. x"
      <<32, 32, 50, 41, 32, 121, 10, 49, 46, 32, 122>>,        \* "  2) y", "1. z"
      <<45, 32, 97, 10, 32, 32, 42, 32, 98>>,                  \* "- a", "  * b"
      <<84, 10, 10, 35, 32, 72, 10, 9, 9, 51, 46, 32, 99>> }   \* "T", "", "# H", "<tab><tab>3. c"

\* a call that has not started
CallEntry(c) ==
    [content |-> c, pc |-> "start", lines |-> <<>>, i |-> 0, isFirstContent |-> TRUE,
     blocks |-> <<>>, pages |-> <<>>, buf |-> <<>>, ioErr |-> "nil"]

InitTwo ==
    /\ ExportIdle(<<>>, "idle")
    /\ WrapIdle("idle", <<>>, 0, 0)
    /\ EscIdle("idle", <<>>)
    /\ AppIdle
    /\ styles = packageStyles
    /\ \E cs \in [Calls -> TwoInputs] : calls = [p \in Calls |-> CallEntry(cs[p])]
    /\ files = [p \in Calls |-> OldFile]

\* call p splits its content into lines
TwoParseStart(p) ==
    /\ calls[p].pc = "start"
    /\ calls' = [calls EXCEPT ![p].lines = SplitLines(ReplaceCRLF(calls[p].content)),
                              ![p].pc = "parse"]
    /\ UNCHANGED <<styles, files>>
    /\ UNCHANGED notTwo

\* one iteration of parseContent's loop in call p, with the package-level
\* styles as they are at this moment
TwoParseLine(p) ==
    /\ calls[p].pc = "parse"
    /\ calls[p].i < Len(calls[p].lines)
    /\ LET c == calls[p]
           r == parseLineIn(styles, c.lines, c.i + 1, c.isFirstContent)
       IN  /\ calls' = [calls EXCEPT
                           ![p].blocks = c.blocks \o r.blocks,
                           ![p].isFirstContent =
                               firstContentAfter(c.isFirstContent, c.lines[c.i + 1]),
                           ![p].i = c.i + 1]
           /\ styles' = r.g
    /\ UNCHANGED files
    /\ UNCHANGED notTwo

\* call p lays its blocks out: the loop over the blocks uses locals only
TwoLayout(p) ==
    /\ calls[p].pc = "parse"
    /\ calls[p].i >= Len(calls[p].lines)
    /\ calls' = [calls EXCEPT ![p].pages = layoutBlocks(calls[p].blocks),
                              ![p].pc = "write"]
    /\ UNCHANGED <<styles, files>>
    /\ UNCHANGED notTwo

\* call p builds its buffer
TwoBuild(p) ==
    /\ calls[p].pc = "write"
    /\ calls' = [calls EXCEPT ![p].buf = documentBytes(calls[p].pages),
                              ![p].pc = "file"]
    /\ UNCHANGED <<styles, files>>
    /\ UNCHANGED notTwo

\* os.WriteFile of call p, on the path of call p
TwoWriteFile(p) ==
    /\ calls[p].pc = "file"
    /\ \E err \in {"nil", "EACCES"} :
          /\ calls' = [calls EXCEPT ![p].ioErr = err, ![p].pc = "done"]
          /\ files' = [files EXCEPT ![p] = IF err = "nil" THEN calls[p].buf ELSE @]
    /\ UNCHANGED styles
    /\ UNCHANGED notTwo

NextTwo ==
    \E p \in Calls :
        \/ TwoParseStart(p)
        \/ TwoParseLine(p)
        \/ TwoLayout(p)
        \/ TwoBuild(p)
        \/ TwoWriteFile(p)

SpecTwo == InitTwo /\ [][NextTwo]_vars

---------------------------------------------------------------------------
(* Reading a PDF file back.  These operators look at bytes only: they are  *)
(* what a reader of the file sees, and use nothing of the writer's state.  *)
(* Offsets are 0-based byte offsets, as in the file.                       *)

\* the bytes s stand at offset off of f
At(f, off, s) ==
    /\ off >= 0
    /\ off + Len(s) <= Len(f)
    /\ SubSeq(f, off + 1, off + Len(s)) = s

\* the number of decimal digits that stand at offset off of f (at most 10)
DigitsAt(f, off) ==
    CHOOSE n \in 0..10 :
        /\ \A k \in 1..n : off + k <= Len(f) /\ IsDigit(f[off + k])
        /\ n = 10 \/ off + n + 1 > Len(f) \/ ~IsDigit(f[off + n + 1])

RECURSIVE NatOf(_, _, _)
\* the value of the n decimal digits at offset off of f
NatOf(f, off, n) ==
    IF n = 0 THEN 0 ELSE NatOf(f, off, n - 1) * 10 + (f[off + n] - 48)

NatAt(f, off) == NatOf(f, off, DigitsAt(f, off))

kwStartxref == <<115, 116, 97, 114, 116, 120, 114, 101, 102, 10>>      \* "startxref\n"
kwXref      == <<120, 114, 101, 102, 10>>                              \* "xref\n"
kwTrailer   == <<116, 114, 97, 105, 108, 101, 114, 10>>                \* "trailer\n"
kwSize      == <<60, 60, 10, 47, 83, 105, 122, 101, 32>>               \* "<<\n/Size "
kwObj       == <<32, 48, 32, 111, 98, 106, 10>>                        \* " 0 obj\n"
kwEndobj    == <<101, 110, 100, 111, 98, 106, 10>>                     \* "endobj\n"
kwRef       == <<32, 48, 32, 82>>                                      \* " 0 R"
kwMagic     == <<37, 80, 68, 70, 45, 49, 46, 52>>                      \* "%PDF-1.4"
kwEOF       == <<37, 37, 69, 79, 70>>                                  \* "%%EOF"
kwFreeHead  == <<48, 48, 48, 48, 48, 48, 48, 48, 48, 48, 32, 54, 53, 53, 51, 53, 32, 102, 32, 10>>
                                                                       \* "0000000000 65535 f \n"
kwPagesDict == <<60, 60, 10, 47, 84, 121, 112, 101, 32, 47, 80, 97, 103, 101, 115, 10, 47, 75, 105, 100, 115, 32, 91>>
                                                                       \* "<<\n/Type /Pages\n/Kids ["
kwCount     == <<93, 10, 47, 67, 111, 117, 110, 116, 32>>              \* "]\n/Count "
kwPageDict  == <<60, 60, 10, 47, 84, 121, 112, 101, 32, 47, 80, 97, 103, 101, 10>>
                                                                       \* "<<\n/Type /Page\n"
kwContents  == <<47, 67, 111, 110, 116, 101, 110, 116, 115, 32>>       \* "/Contents "
kwLength    == <<60, 60, 10, 47, 76, 101, 110, 103, 116, 104, 32>>     \* "<<\n/Length "
kwFlate     == <<10, 47, 70, 105, 108, 116, 101, 114, 32, 47, 70, 108, 97, 116, 101, 68, 101, 99, 111, 100, 101, 10, 62, 62, 10>>
                                                                       \* "\n/Filter /FlateDecode\n>>\n"
kwStream    == <<115, 116, 114, 101, 97, 109, 13, 10>>                 \* "stream\r\n"
kwEndstream == <<13, 10, 101, 110, 100, 115, 116, 114, 101, 97, 109, 10>>   \* "\r\nendstream\n"

\* the last non-empty line of f, without its line feed
LastLine(f) ==
    IF \A k \in 1..Len(f) : f[k] = 10 THEN <<>>
    ELSE LET e == CHOOSE e \in 1..Len(f) :
                      f[e] # 10 /\ \A k \in (e + 1)..Len(f) : f[k] = 10
             b == CHOOSE b \in 1..e :
                      (b = 1 \/ f[b - 1] = 10) /\ \A k \in b..e : f[k] # 10
         IN  SubSeq(f, b, e)

\* offset of the startxref keyword, looked for in the tail of the file; -1 if none
StartxrefAt(f) ==
    LET cand == {q \in (Len(f) - 40)..Len(f) : At(f, q, kwStartxref)}
    IN  IF cand = {} THEN -1 ELSE CHOOSE q \in cand : \A r \in cand : r <= q

\* the number that follows startxref: where the reader looks for the table
XrefPos(f) == NatAt(f, StartxrefAt(f) + Len(kwStartxref))

\* the object count of the subsection header "0 <n>" of the table at x
XrefHeaderCount(f, x) == NatAt(f, x + Len(kwXref) + 2)

\* offset of entry 0 of the table at x
XrefEntries(f, x) == x + Len(kwXref) + 2 + DigitsAt(f, x + Len(kwXref) + 2) + 1

\* a 20-byte entry stands at offset e: 10 digits, space, 5 digits, space, n or f, space, LF
IsXrefEntry(f, e) ==
    /\ e + 20 <= Len(f)
    /\ \A k \in 1..10 : IsDigit(f[e + k])
    /\ f[e + 11] = 32
    /\ \A k \in 12..16 : IsDigit(f[e + k])
    /\ f[e + 17] = 32
    /\ f[e + 18] \in {110, 102}
    /\ f[e + 19] = 32
    /\ f[e + 20] = 10

\* the number of entries of the table at x: entries up to the trailer keyword; -1 if malformed
XrefEntryCount(f, x) ==
    LET e0 == XrefEntries(f, x)
        ok == {m \in 0..((Len(f) - e0) \div 20) :
                  /\ \A j \in 0..(m - 1) : IsXrefEntry(f, e0 + 20 * j)
                  /\ At(f, e0 + 20 * m, kwTrailer)}
    IN  IF At(f, x, kwXref) /\ At(f, x + Len(kwXref), <<48, 32>>) /\ ok # {}
        THEN CHOOSE m \in ok : TRUE ELSE -1

\* the /Size of the trailer that follows the m entries of the table at x
TrailerSize(f, x, m) ==
    LET t == XrefEntries(f, x) + 20 * m + Len(kwTrailer)
    IN  IF At(f, t, kwSize) THEN NatAt(f, t + Len(kwSize)) ELSE -1

\* the offset that entry k of the table at x gives for object k
XrefOffsetOf(f, x, k) == NatOf(f, XrefEntries(f, x) + 20 * k, 10)

\* the number of object headers "<n> 0 obj" in f
ObjCount(f) ==
    Cardinality({q \in 0..(Len(f) - 1) : f[q + 1] = 32 /\ At(f, q, kwObj)})

\* object number k starts at offset off
ObjAt(f, off, k) == At(f, off, Itoa(k) \o kwObj)

\* offset of the first byte after the header "<k> 0 obj\n" of the object at off
BodyAt(off, k) == off + Len(Itoa(k)) + Len(kwObj)

RECURSIVE RefList(_, _)
\* the object numbers of the references "n 0 R" listed from offset q up to "]";
\* <<-1>> if the list is malformed
RefList(f, q) ==
    IF q + 1 > Len(f) THEN <<-1>>
    ELSE IF f[q + 1] = 93 THEN <<>>
    ELSE IF f[q + 1] = 32 THEN RefList(f, q + 1)
    ELSE LET n == DigitsAt(f, q)
         IN  IF n = 0 \/ ~At(f, q + n, kwRef) THEN <<-1>>
             ELSE <<NatOf(f, q, n)>> \o RefList(f, q + n + Len(kwRef))

\* the Kids of the Pages object that stands at offset off as object 2
KidsOf(f, off) ==
    IF ObjAt(f, off, 2) /\ At(f, BodyAt(off, 2), kwPagesDict)
    THEN RefList(f, BodyAt(off, 2) + Len(kwPagesDict))
    ELSE <<-1>>

\* the /Count of the Pages object that stands at offset off as object 2; -1 if none
CountOf(f, off) ==
    LET q0 == BodyAt(off, 2) + Len(kwPagesDict)
        close == {q \in q0..(q0 + 200) : At(f, q, kwCount)}
    IN  IF close = {} THEN -1
        ELSE NatAt(f, (CHOOSE q \in close : \A r \in close : q <= r) + Len(kwCount))

\* the object that the Page dictionary at offset off (object k) names as /Contents; -1 if none
ContentsOf(f, off, k) ==
    LET b == BodyAt(off, k)
        keys == {q \in b..(b + 120) : At(f, q, kwContents)}
    IN  IF ~(ObjAt(f, off, k) /\ At(f, b, kwPageDict)) \/ keys = {} THEN -1
        ELSE LET q == (CHOOSE q \in keys : \A r \in keys : q <= r) + Len(kwContents)
             IN  IF At(f, q + DigitsAt(f, q), kwRef) THEN NatAt(f, q) ELSE -1

\* the /Length that the stream object at offset off (object k) declares; -1 if it is none
LengthOf(f, off, k) ==
    IF ObjAt(f, off, k) /\ At(f, BodyAt(off, k), kwLength)
    THEN NatAt(f, BodyAt(off, k) + Len(kwLength))
    ELSE -1

\* offset of the first byte of the stream data of the stream object at off; -1 if it is none
StreamDataAt(f, off, k) ==
    LET q == BodyAt(off, k) + Len(kwLength)
        d == q + DigitsAt(f, q)
    IN  IF LengthOf(f, off, k) >= 0 /\ At(f, d, kwFlate \o kwStream)
        THEN d + Len(kwFlate) + Len(kwStream) ELSE -1

\* the content of a page's stream is well formed: one operator per line,
\* "BT" first, "ET" last and nowhere else, and between them only font (Tf),
\* text matrix (Tm) and show-text (Tj) operators whose string literal is closed
\* by its last parenthesis and by no other

\* the number of backslashes that stand immediately before position k of s
BackslashesBefore(s, k) ==
    CHOOSE n \in 0..(k - 1) :
        /\ \A j \in 1..n : s[k - j] = 92
        /\ n = k - 1 \/ s[k - n - 1] # 92

\* in the body s of a literal every parenthesis is escaped and no backslash is left open
LiteralClosed(s) ==
    /\ \A k \in 1..Len(s) : s[k] \in {40, 41} => BackslashesBefore(s, k) % 2 = 1
    /\ BackslashesBefore(s, Len(s) + 1) % 2 = 0
    /\ \A k \in 1..Len(s) : s[k] >= 32 /\ s[k] <= 126

HasSuffix(s, suffix) ==
    Len(s) >= Len(suffix) /\ SubSeq(s, Len(s) - Len(suffix) + 1, Len(s)) = suffix

IsTextOperator(l) ==
    \/ HasPrefix(l, <<47, 70>>) /\ HasSuffix(l, <<32, 84, 102>>)                     \* "/F... Tf"
    \/ HasPrefix(l, <<49, 32, 48, 32, 48, 32, 49, 32>>) /\ HasSuffix(l, <<32, 84, 109>>)   \* "1 0 0 1 ... Tm"
    \/ /\ HasPrefix(l, <<40>>) /\ HasSuffix(l, <<41, 32, 84, 106>>)                  \* "(...) Tj"
       /\ LiteralClosed(SubSeq(l, 2, Len(l) - 4))

ContentWellFormed(c) ==
    /\ Len(c) >= 6
    /\ c[Len(c)] = 10
    /\ LET starts == {q \in 1..Len(c) : q = 1 \/ c[q - 1] = 10}
           End(q) == CHOOSE e \in q..Len(c) : c[e] = 10 /\ \A k \in q..(e - 1) : c[k] # 10
           Line(q) == SubSeq(c, q, End(q) - 1)
       IN  \A q \in starts :
               IF q = 1 THEN Line(q) = <<66, 84>>                         \* "BT"
               ELSE IF End(q) = Len(c) THEN Line(q) = <<69, 84>>          \* "ET"
               ELSE IsTextOperator(Line(q))

---------------------------------------------------------------------------
(* The claims.                                                             *)

Written == pc \in {"file", "done"}

\* the runes that count as white space
WhiteSpace ==
    {9, 10, 11, 12, 13, 32, 133, 160, 5760, 8232, 8233, 8239, 8287, 12288} \cup (8192..8202)

\* C1: when Export has returned without error, the file at the output path
\* starts with the eight bytes %PDF-1.4 and its last non-empty line is %%EOF;
\* a file without them is only ever left behind together with a write error.
C1_HeaderAndEOF ==
    (pc = "done" /\ ret = "nil") =>
        /\ At(file, 0, kwMagic)
        /\ LastLine(file) = kwEOF

C1_Witness ==
    pc = "done" /\ ret = "nil" /\ Len(pages) > 0 /\ file # OldFile

\* C2: Export returns exactly what the file write returned, so it fails if and
\* only if the write fails, and when the write succeeds Export succeeds and the
\* file holds the whole buffer.  No earlier step returns or fails: the call is
\* at one of its steps, and where a line is placed there is a line to place,
\* a block it belongs to and a page to put it on.
C2_ErrorIsWriteError ==
    /\ pc = "done" => (ret = ioErr /\ (ioErr = "nil" => file = buf))
    /\ pc # "done" =>
          /\ ret = "none"
          /\ pc \in {"start", "parse", "layout", "lines", "pages", "file"}
          /\ pc = "lines" => (li \in 1..Len(curLines) /\ bi \in 1..Len(blocks) /\ Len(pages) > 0)

C2_Witness ==
    pc = "done" /\ ioErr = "ENOSPC" /\ ret = "ENOSPC" /\ file # buf

\* C3: for an input made of white space and line breaks only, no block
\* produces a line, no page is ever added, and the file has exactly two
\* objects, the Pages object having an empty Kids array and /Count 0;
\* Export succeeds when the write does.
C3_BlankInputNoPages ==
    (\A k \in 1..Len(content) : content[k] \in WhiteSpace) =>
        /\ Len(pages) = 0
        /\ \A k \in 1..Len(blocks) : blockLines(blocks[k]) = <<>>
        /\ pc # "lines"
        /\ Written =>
              LET o2 == XrefOffsetOf(buf, XrefPos(buf), 2)
              IN  /\ ObjCount(buf) = 2
                  /\ KidsOf(buf, o2) = <<>>
                  /\ CountOf(buf, o2) = 0
        /\ (pc = "done" /\ ioErr = "nil") => ret = "nil"

C3_Witness ==
    /\ pc = "done" /\ ret = "nil"
    /\ Len(content) > 2
    /\ \A k \in 1..Len(content) : content[k] \in WhiteSpace
    /\ \E k \in 1..Len(content) : content[k] = 160

\* C4: for a document of N pages the cross-reference table has 2N + 3 entries,
\* one more than the objects in the file; its subsection header and the
\* trailer's /Size state that number, and entry 0 is the free-list head.
C4_XrefEntries ==
    Written =>
        LET x == XrefPos(buf)
            m == XrefEntryCount(buf, x)
        IN  /\ m = ObjCount(buf) + 1
            /\ m = 2 * Len(pages) + 3
            /\ XrefHeaderCount(buf, x) = m
            /\ TrailerSize(buf, x, m) = m
            /\ At(buf, XrefEntries(buf, x), kwFreeHead)

C4_Witness ==
    pc = "done" /\ Len(pages) = 2 /\ XrefEntryCount(buf, XrefPos(buf)) = 7

\* C5: page i (0-based) is listed in Kids as object 3 + 2i; the object with
\* that number is the Page dictionary that the counter numbered so, its
\* /Contents names object 4 + 2i, the next one, and that object is in the
\* file and is a stream: no reference points at a missing or other object.
C5_PageObjectNumbers ==
    /\ (pc = "pages" /\ pgi < Len(pages)) => objectNum + 1 = 3 + 2 * pgi
    /\ Written =>
          LET x == XrefPos(buf)
              m == XrefEntryCount(buf, x)
              kids == KidsOf(buf, XrefOffsetOf(buf, x, 2))
          IN  /\ Len(kids) = Len(pages)
              /\ CountOf(buf, XrefOffsetOf(buf, x, 2)) = Len(pages)
              /\ \A k \in 0..(Len(pages) - 1) :
                    LET num == kids[k + 1]
                    IN  /\ num = 3 + 2 * k
                        /\ num + 1 < m
                        /\ ContentsOf(buf, XrefOffsetOf(buf, x, num), num) = 4 + 2 * k
                        /\ StreamDataAt(buf, XrefOffsetOf(buf, x, num + 1), num + 1) >= 0

C5_Witness ==
    pc = "done" /\ Len(pages) = 3 /\ KidsOf(buf, XrefOffsetOf(buf, XrefPos(buf), 2)) = <<3, 5, 7>>

\* C6: every recorded offset is the position in the buffer at which the
\* object of that number begins; the in-use entries of the table are these
\* offsets, in object order and strictly increasing; and the number after
\* startxref is the offset of the xref keyword, which follows the last object.
C6_OffsetsAreReal ==
    /\ pc \in {"pages", "file", "done"} =>
          /\ Len(offsets) = objectNum
          /\ \A k \in 1..Len(offsets) : ObjAt(buf, offsets[k], k)
    /\ Written =>
          LET x == XrefPos(buf)
              m == XrefEntryCount(buf, x)
          IN  /\ x = xrefOffset
              /\ At(buf, x, kwXref)
              /\ At(buf, x - Len(kwEndobj), kwEndobj)
              /\ m = Len(offsets) + 1
              /\ \A k \in 1..(m - 1) :
                    /\ XrefOffsetOf(buf, x, k) = offsets[k]
                    /\ ObjAt(buf, XrefOffsetOf(buf, x, k), k)
              /\ \A k \in 1..(m - 2) : XrefOffsetOf(buf, x, k) < XrefOffsetOf(buf, x, k + 1)

C6_Witness ==
    pc = "done" /\ Len(offsets) = 6 /\ ObjAt(buf, XrefOffsetOf(buf, XrefPos(buf), 6), 6)

\* the stream data that the file holds for page k (0-based): the bytes after
\* the stream keyword of object 4 + 2k, as many as its /Length declares
StreamBytes(f, k) ==
    LET x == XrefPos(f)
        off == XrefOffsetOf(f, x, 4 + 2 * k)
        d == StreamDataAt(f, off, 4 + 2 * k)
    IN  IF d < 0 THEN <<>> ELSE SubSeq(f, d + 1, d + LengthOf(f, off, 4 + 2 * k))

\* C7: for every page the declared /Length is the number of bytes between the
\* stream and endstream markers, which is the length of the compressed
\* stream and not that of the content before compression.
C7_LengthIsCompressedLength ==
    Written =>
        \A k \in 0..(Len(pages) - 1) :
            LET x == XrefPos(buf)
                m == XrefEntryCount(buf, x)
                c == 4 + 2 * k
                off == XrefOffsetOf(buf, x, c)
                d == StreamDataAt(buf, off, c)
                length == LengthOf(buf, off, c)
                next == IF c + 1 < m THEN XrefOffsetOf(buf, x, c + 1) ELSE x
            IN  /\ d >= 0
                /\ At(buf, d + length, kwEndstream \o kwEndobj)
                /\ d + length + Len(kwEndstream) + Len(kwEndobj) = next
                /\ length = Len(compressStream(buildContentStream(pages[k + 1])))

C7_Witness ==
    /\ pc = "done" /\ Len(pages) = 2
    /\ LengthOf(buf, XrefOffsetOf(buf, XrefPos(buf), 6), 6) = Len(StreamBytes(buf, 1))
    /\ Len(StreamBytes(buf, 1)) # Len(buildContentStream(pages[2]))

\* C8: for every page, inflating the stream data of the file succeeds and
\* gives exactly the bytes of buildContentStream, and these are one BT at the
\* start, one ET at the end, and font, position and show-text operators only
\* between them.
C8_StreamRoundTrip ==
    Written =>
        \A k \in 0..(Len(pages) - 1) :
            LET r == inflate(StreamBytes(buf, k))
            IN  /\ r.ok
                /\ r.data = buildContentStream(pages[k + 1])
                /\ ContentWellFormed(r.data)

C8_Witness ==
    /\ pc = "done" /\ Len(pages) = 1
    /\ \E t \in 1..Len(pages[1]) : 41 \in {pages[1][t].text[k] : k \in 1..Len(pages[1][t].text)}
    /\ inflate(StreamBytes(buf, 0)).ok


\* C9: word-wrapping is idempotent: each line L that wrapText returns, passed
\* through wrapText again with the same width and font size, yields exactly
\* the one-element sequence <<L>>.
C9_WrapIdempotent ==
    wpc = "done" =>
        /\ DOMAIN wAgain = 1..Len(wLines)
        /\ \A k \in 1..Len(wLines) : wAgain[k] = <<wLines[k]>>

\* a text was wrapped into two lines or more, one of them holding several
\* words and exactly as long as the bound, and every line was wrapped again
C9_Witness ==
    /\ wpc = "done"
    /\ Len(wLines) >= 2
    /\ Len(wAgain) = Len(wLines)
    /\ \E k \in 1..Len(wLines) :
          /\ \E j \in 1..Len(wLines[k]) : wLines[k][j] = 32
          /\ Sum(LAMBDA j : Utf8Len(wLines[k][j]), 1, Len(wLines[k]))
                = (IF (wWidth * 25) \div (18 * wSize) < 20 THEN 20
                   ELSE (wWidth * 25) \div (18 * wSize))

\* C10: the overflow tests of the pagination are strict. With a page present,
\* a block of one line or more starts a new page exactly when y + spaceBefore +
\* lines x lineHeight is greater than pageHeight - marginBottom, and stays on
\* the current page (y advanced by spaceBefore) when the sum is equal or less;
\* a line starts a new page exactly when y + lineHeight is greater than
\* pageHeight - marginBottom, and is placed on the current page when equal or less.
C10_StrictOverflow ==
    [][ /\ (pc = "layout" /\ bi <= Len(blocks) /\ Len(pages) > 0
               /\ Len(blockLines(blocks[bi])) > 0) =>
             LET lineHeight == (blocks[bi].style.fontSize * 9) \div 5
                 blockHeight == blocks[bi].spaceBefore
                                + Len(blockLines(blocks[bi])) * lineHeight
             IN  IF y + blockHeight > 11880 - 1000
                 THEN Len(pages') = Len(pages) + 1 /\ y' = 1000
                 ELSE pages' = pages /\ y' = y + blocks[bi].spaceBefore
        /\ (pc = "lines" /\ Len(pages) > 0) =>
             LET lineHeight == (blocks[bi].style.fontSize * 9) \div 5
                 n == Len(pages)
             IN  IF y + lineHeight > 11880 - 1000
                 THEN /\ Len(pages') = n + 1
                      /\ pages'[n] = pages[n]
                      /\ Len(pages'[n + 1]) = 1
                      /\ y' = 1000 + lineHeight
                 ELSE /\ Len(pages') = n
                      /\ Len(pages'[n]) = Len(pages[n]) + 1
                      /\ y' = y + lineHeight
      ]_vars

\* the block that exactly fills the rest of the first page was kept on it and
\* its line, whose bottom is exactly at the bottom margin, was placed on it
C10_Witness ==
    /\ pc = "layout"
    /\ bi > 1
    /\ y = 11880 - 1000
    /\ Len(pages) = 1
    /\ Len(pages[1]) > 1
    /\ LET b == blocks[bi - 1]
       IN  pages[1][Len(pages[1])].y
             = (11880 - (y - (b.style.fontSize * 9) \div 5)) * ptPerU

---------------------------------------------------------------------------
(* Classification of the lines.                                            *)

\* parseContent has returned
Parsed == pc \notin {"start", "parse"}

\* the index of the first line of ls that is not blank, 0 when all are blank
FirstContentLine(ls) ==
    LET full == {k \in 1..Len(ls) : TrimSpace(ls[k]) # <<>>}
    IN  IF full = {} THEN 0 ELSE CHOOSE a \in full : \A b \in full : a <= b

\* C11: the first line that is not blank is the Title exactly when its
\* trimmed length (len of the string, its bytes) is below 60 and the next
\* line exists and is blank; no other line is a Title; for "Title", a blank
\* line, "Body text here." the first block is the Title, the body line has
\* the Body style and the document has one page
C11_TitleHeuristic ==
    Parsed =>
        LET f == FirstContentLine(lines)
        IN  /\ f = 0 => blocks = <<>>
            /\ f # 0 =>
                  /\ Len(blocks) = Len(lines) - f + 1
                  /\ blocks[1].style = styleTitle
                        <=> /\ ByteLen(TrimSpace(lines[f])) < 60
                            /\ f < Len(lines)
                            /\ TrimSpace(lines[f + 1]) = <<>>
            /\ \A j \in 2..Len(blocks) : blocks[j].style # styleTitle
            /\ content = TitleInput =>
                  /\ blocks[1] = Block(<<84, 105, 116, 108, 101>>, styleTitle, 0)
                  /\ blocks[Len(blocks)].style = styleBody
                  /\ blocks[Len(blocks)].text = SubSeq(TitleInput, 8, Len(TitleInput))
                  /\ pc \in {"pages", "file", "done"} => Len(pages) = 1

C11_Witness ==
    /\ pc = "done"
    /\ content = TitleInput
    /\ blocks[1].style = styleTitle
    /\ Len(pages) = 1
    /\ Len(pages[1]) = 2

---------------------------------------------------------------------------
(* Pagination of a heading followed by a long paragraph.                   *)

\* the layout loop of Export has ended
LaidOut == pc \in {"pages", "file", "done"}

\* the texts of the runs of pages from..to of pp, in order
RunTexts(pp, from, to) ==
    LET OfPage(p) == [k \in 1..Len(pp[p]) |-> pp[p][k].text]
    IN  Cat(OfPage, from, to)

\* "Heading"
HeadingText == <<72, 101, 97, 100, 105, 110, 103>>

\* C12: for "# Heading" followed by a line of 500 times "filler word " the
\* document has at least two pages, the heading is one run, the only run of
\* page 1, and the lines of the paragraph fill the later pages in order
C12_HeadingThenBody ==
    /\ (content = HeadingInput /\ Len(pages) >= 1) => Len(pages[1]) <= 1
    /\ (LaidOut /\ content = HeadingInput) =>
        /\ Len(pages) >= 2
        /\ Len(pages[1]) = 1
        /\ pages[1][1].text = HeadingText
        /\ pages[1][1].fontName = styleH1.fontName
        /\ pages[1][1].fontSize = styleH1.fontSize
        /\ Cardinality(UNION { {<<p, k>> : k \in {n \in 1..Len(pages[p]) :
                                                    pages[p][n].text = HeadingText}} :
                                p \in 1..Len(pages) }) = 1
        /\ \A p \in 2..Len(pages) : Len(pages[p]) > 0
        /\ RunTexts(pages, 2, Len(pages))
             = wrapText(SubSeq(HeadingInput, 11, Len(HeadingInput)),
                        contentWidth - styleBody.indent, styleBody.fontSize)

C12_Witness ==
    /\ pc = "done"
    /\ content = HeadingInput
    /\ Len(pages) = 3
    /\ Len(pages[2]) > 1
    /\ Len(pages[3]) > 1

---------------------------------------------------------------------------
(* List items.                                                             *)

\* the number of space and tab characters that line begins with
LeadCount(line) ==
    CHOOSE n \in 0..Len(line) :
        /\ \A k \in 1..n : line[k] \in {32, 9}
        /\ n = Len(line) \/ line[n + 1] \notin {32, 9}

\* C13: a line that is not the title and starts with "- " or "* " is a
\* bullet, one that matches the numbered pattern is a numbered item; the
\* indent is 8 mm with fewer than two leading space or tab characters and
\* 14 mm with two or more; "- item" has styleBullet, "  - nested" has
\* styleSubBullet
C13_ListItems ==
    Parsed =>
        LET f == FirstContentLine(lines)
            Line(j) == lines[f + j - 1]
            Trimmed(j) == TrimSpace(Line(j))
            IsTitle(j) == j = 1 /\ blocks[1].style = styleTitle
            Indent(j) == IF LeadCount(Line(j)) < 2 THEN 8 * 40 ELSE 14 * 40
        IN  /\ \A j \in 1..Len(blocks) :
                  /\ ( /\ ~IsTitle(j)
                       /\ HasPrefix(Trimmed(j), <<45, 32>>) \/ HasPrefix(Trimmed(j), <<42, 32>>) )
                     => /\ blocks[j].style \in {styleBullet, styleSubBullet}
                        /\ blocks[j].style.indent = Indent(j)
                        /\ blocks[j].style = styleSubBullet <=> LeadCount(Line(j)) >= 2
                        /\ blocks[j].text
                             = <<45, 32, 32>> \o SubSeq(Trimmed(j), 3, Len(Trimmed(j)))
                  /\ (~IsTitle(j) /\ numberedListMatch(Trimmed(j)))
                     => /\ blocks[j].style.fontName = styleNumbered.fontName
                        /\ blocks[j].style.fontSize = styleNumbered.fontSize
                        /\ blocks[j].style.indent = Indent(j)
                        /\ blocks[j].text = Trimmed(j)
            /\ content = ListInput =>
                  /\ blocks[1].style = styleBullet
                  /\ blocks[2].style = styleSubBullet

C13_Witness ==
    /\ pc = "done"
    /\ content = ListInput
    /\ blocks[1].style = styleBullet
    /\ blocks[2].style = styleSubBullet
    /\ blocks[4].style.indent = 14 * 40
    /\ blocks[5].style.indent = 8 * 40

\* the call taken step by step builds what the call taken as a function builds
StepsAgree ==
    /\ LaidOut => pages = layoutBlocks(parseContent(content))
    /\ pc \in {"file", "done"} => buf = exportBytes(content)

---------------------------------------------------------------------------
(* Two calls at the same time.                                             *)

\* C14: of two Export calls on different paths, interleaved in any way, each
\* writes the bytes it writes when it runs alone; the package-level styles
\* are never modified, the indent of an indented numbered item being set on
\* a copy
C14_CallsIndependent ==
    /\ styles = packageStyles
    /\ \A p \in Calls :
          /\ \A j \in 1..Len(calls[p].blocks) :
                LET line == calls[p].lines[FirstContentLine(calls[p].lines) + j - 1]
                IN  (numberedListMatch(TrimSpace(line)) /\ LeadCount(line) >= 2
                        /\ calls[p].blocks[j].style # styleTitle)
                    => calls[p].blocks[j].style.indent = 14 * 40
          /\ calls[p].pc \in {"file", "done"}
               => calls[p].buf = exportBytes(calls[p].content)
          /\ (calls[p].pc = "done" /\ calls[p].ioErr = "nil")
               => files[p] = exportBytes(calls[p].content)
          /\ (calls[p].pc # "done" \/ calls[p].ioErr # "nil")
               => files[p] = OldFile

\* both calls are done, the first with an indented numbered item and the
\* second with a plain one, and the files differ
C14_Witness ==
    /\ \A p \in Calls : calls[p].pc = "done" /\ calls[p].ioErr = "nil"
    /\ \E j \in 1..Len(calls[1].blocks) :
          /\ numberedListMatch(calls[1].blocks[j].text)
          /\ calls[1].blocks[j].style.indent = 14 * 40
    /\ \E j \in 1..Len(calls[2].blocks) :
          /\ numberedListMatch(calls[2].blocks[j].text)
          /\ calls[2].blocks[j].style.indent = 8 * 40
    /\ files[1] # files[2]
    /\ files[1] = calls[1].buf

---------------------------------------------------------------------------
(* The one write to disk.                                                  *)

\* C15: Export writes to disk exactly once, as its last step: the call of
\* os.WriteFile comes after all blocks are laid out and the whole buffer,
\* from the header to the %%EOF line, is built; until then the file at the
\* path is as it was, and every call gets to that write
C15_SingleWrite ==
    /\ [][ /\ pc # "done"
           /\ pc # "file" =>
                 /\ file = OldFile /\ file' = file
                 /\ ioErr' = "nil" /\ ret' = "none"
                 /\ pc' # "done"
           /\ pc = "file" =>
                 /\ file = OldFile
                 /\ pc' = "done" /\ ret' # "none"
                 /\ bi > Len(blocks)
                 /\ pgi = Len(pages)
                 /\ buf' = buf
                 /\ At(buf, 0, kwMagic)
                 /\ LastLine(buf) = kwEOF
                 /\ ObjCount(buf) = 2 + 2 * Len(pages)
                 /\ file' # file => \E n \in 0..Len(buf) : file' = SubSeq(buf, 1, n) ]_vars
    /\ <>(pc = "done")

C15_Witness ==
    /\ pc = "done"
    /\ ioErr = "nil"
    /\ file = buf
    /\ Len(pages) = 2
    /\ Len(blocks) > 20

---------------------------------------------------------------------------
(* Headings.                                                               *)

\* C16: every line whose trimmed text starts with "# ", "## " or "### " is
\* a block of style H1, H2 or H3 with the marker removed, wherever the line
\* stands, also when it is the first line that is not blank and a blank line
\* follows it
C16_HeadingsEverywhere ==
    Parsed =>
        LET f == FirstContentLine(lines)
            Trimmed(j) == TrimSpace(lines[f + j - 1])
            Rest(j, n) == SubSeq(Trimmed(j), n + 1, Len(Trimmed(j)))
        IN  \A j \in 1..Len(blocks) :
                /\ HasPrefix(Trimmed(j), <<35, 32>>)
                     => blocks[j].style = styleH1 /\ blocks[j].text = Rest(j, 2)
                /\ HasPrefix(Trimmed(j), <<35, 35, 32>>)
                     => blocks[j].style = styleH2 /\ blocks[j].text = Rest(j, 3)
                /\ HasPrefix(Trimmed(j), <<35, 35, 35, 32>>)
                     => blocks[j].style = styleH3 /\ blocks[j].text = Rest(j, 4)

---------------------------------------------------------------------------
(* Word wrapping.                                                          *)

\* words a..b of ws on one line, a space between two of them
JoinedLine(ws, a, b) ==
    LET Piece(k) == IF k = a THEN ws[k] ELSE <<32>> \o ws[k]
    IN  Cat(Piece, a, b)

\* a line may hold words a..b: it is within the bound, or it is one word
LineAllowed(ws, a, b, maxChars) ==
    a = b \/ ByteLen(JoinedLine(ws, a, b)) <= maxChars

\* The splits of ws into consecutive lines: a split is the set of the
\* indexes of the words that end a line (the last word always does).
Splits(ws) ==
    IF Len(ws) = 0 THEN {{}}
    ELSE {ends \cup {Len(ws)} : ends \in SUBSET (1..(Len(ws) - 1))}

\* the first word of the line that ends with word e, in the split ends
LineStart(ends, e) ==
    IF \E d \in ends : d < e
    THEN 1 + CHOOSE d \in ends : d < e /\ \A c \in ends : c < e => c <= d
    ELSE 1

SplitAllowed(ws, ends, maxChars) ==
    \A e \in ends : LineAllowed(ws, LineStart(ends, e), e, maxChars)

RECURSIVE GreedyFrom(_, _, _)
\* greedy packing of the words a.. of ws: each line takes as many words as
\* it may hold
GreedyFrom(ws, a, maxChars) ==
    IF a > Len(ws) THEN <<>>
    ELSE LET b == CHOOSE e \in a..Len(ws) :
                      /\ LineAllowed(ws, a, e, maxChars)
                      /\ e = Len(ws) \/ ~LineAllowed(ws, a, e + 1, maxChars)
         IN  <<JoinedLine(ws, a, b)>> \o GreedyFrom(ws, b + 1, maxChars)

\* C17: what wrapText returns is the greedy packing of the words, and no
\* split of the words into consecutive lines, each within maxChars or a
\* single word, has fewer lines; every returned line is within the bound
\* unless it is one word longer than the bound
C17_GreedyIsMinimal ==
    wpc \in {"wrapped", "done"} =>
        LET ws == splitWords(wText)
            maxChars == maxCharsFor(wWidth, wSize)
        IN  /\ wLines = GreedyFrom(ws, 1, maxChars)
            /\ \A ends \in Splits(ws) :
                  SplitAllowed(ws, ends, maxChars) => Len(wLines) <= Cardinality(ends)
            /\ \A k \in 1..Len(wLines) :
                  \/ ByteLen(wLines[k]) <= maxChars
                  \/ /\ \A n \in 1..Len(wLines[k]) : ~IsSpace(wLines[k][n])
                     /\ wLines[k] \in {ws[n] : n \in 1..Len(ws)}

\* three words on two lines, one of them filling its line exactly, where
\* another allowed split has three lines
C17_Witness ==
    /\ wpc = "wrapped"
    /\ Len(splitWords(wText)) = 3
    /\ Len(wLines) = 2
    /\ \E k \in 1..2 : ByteLen(wLines[k]) = maxCharsFor(wWidth, wSize)
                          /\ \E n \in 1..Len(wLines[k]) : wLines[k][n] = 32
    /\ SplitAllowed(splitWords(wText), {1, 2, 3}, maxCharsFor(wWidth, wSize))

---------------------------------------------------------------------------
(* Where a block starts.                                                   *)

\* the step that decides where block bi starts, the block having lines
BlockStarts == pc = "layout" /\ pc' = "lines"

\* the block test of the claim: no page yet, or y + (spaceBefore + lines x
\* lineHeight) greater than pageHeight - marginBottom; 297 mm and 25 mm in U
NeedsNewPage ==
    LET b == blocks[bi]
        lineHeight == (b.style.fontSize * 9) \div 5
    IN  \/ Len(pages) = 0
        \/ y + (b.spaceBefore + Len(blockLines(b)) * lineHeight) > 297 * 40 - 25 * 40

\* the step places the first line of the block: the run it adds is the last
\* of the last page
FirstLinePlaced == pc = "lines" /\ li = 1 /\ pc' \in {"lines", "layout"}

\* the top-down position of the run added last, in U
LastRunTop(pp) == 297 * 40 - pp[Len(pp)][Len(pp[Len(pp)])].y \div ptPerU

\* C18 as stated: when no page exists yet or the block does not fit, a new
\* page is started with y reset to the top margin, and the spacing and the
\* lines of the block are placed after that, so that the first line stands
\* one spacing-before below the top margin; otherwise y is advanced by the
\* spacing-before and the block goes on on the current page
C18_SpacingOnNewPage ==
    [][ BlockStarts =>
          IF NeedsNewPage
          THEN /\ pages' = Append(pages, <<>>)
               /\ y' = 25 * 40 + blocks[bi].spaceBefore
          ELSE /\ pages' = pages
               /\ y' = y + blocks[bi].spaceBefore ]_vars

\* C18, amended: when no page exists yet or the block does not fit, a new
\* page is started with y reset to the top margin and the first line of the
\* block is placed at the top margin, the spacing-before not being applied;
\* otherwise y is advanced by the spacing-before and the block goes on on
\* the current page
C18_BlockPlacement ==
    [][ /\ BlockStarts =>
              IF NeedsNewPage
              THEN /\ pages' = Append(pages, <<>>)
                   /\ y' = 25 * 40
              ELSE /\ pages' = pages
                   /\ y' = y + blocks[bi].spaceBefore
        /\ (FirstLinePlaced /\ y + (blocks[bi].style.fontSize * 9) \div 5 <= 297 * 40 - 25 * 40) =>
              /\ Len(pages') = Len(pages)
              /\ LastRunTop(pages') = y ]_vars

\* a block with a spacing-before has started the second page: y is the top
\* margin and the first line is to be placed there
C18_Witness ==
    /\ pc = "lines"
    /\ li = 1
    /\ Len(pages) = 2
    /\ pages[2] = <<>>
    /\ blocks[bi].spaceBefore > 0
    /\ y = 25 * 40

---------------------------------------------------------------------------
(* Escaping.                                                               *)

RECURSIVE Unescaped(_, _)
\* What a reader of a PDF literal string takes the bytes k.. of s to stand
\* for: a backslash and the byte after it stand for one character; -1 marks
\* a parenthesis without a backslash, a backslash at the end, and a
\* backslash before a byte other than n, r, a parenthesis or a backslash
Unescaped(s, k) ==
    IF k > Len(s) THEN <<>>
    ELSE IF s[k] = 92
    THEN IF k = Len(s) THEN <<-1>>
         ELSE (IF s[k + 1] = 110 THEN <<10>>
               ELSE IF s[k + 1] = 114 THEN <<13>>
               ELSE IF s[k + 1] \in {40, 41, 92} THEN <<s[k + 1]>>
               ELSE <<-1>>) \o Unescaped(s, k + 2)
    ELSE (IF s[k] \in {40, 41} THEN <<-1>> ELSE <<s[k]>>) \o Unescaped(s, k + 1)

\* the characters of s that are to be shown, in order: printable ASCII,
\* carriage return and line feed as they are, four spaces for a tab,
\* nothing for any other character
Shown(s) ==
    LET Piece(k) == IF s[k] = 9 THEN <<32, 32, 32, 32>>
                    ELSE IF s[k] \in (32..126) \cup {10, 13} THEN <<s[k]>>
                    ELSE <<>>
    IN  Cat(Piece, 1, Len(s))

\* C19: what escapePDFString returns has bytes 32..126 only; every
\* backslash and parenthesis of the input is in it behind an escaping
\* backslash, so that it has no bare parenthesis and no backslash left
\* hanging; carriage return and line feed are the escapes \r and \n, a tab
\* is four spaces, every other character outside printable ASCII is gone,
\* and what is left is in the order of the input
C19_EscapedString ==
    epc = "done" =>
        /\ \A k \in 1..Len(eOut) : eOut[k] \in 32..126
        /\ Unescaped(eOut, 1) = Shown(eText)
        /\ Len(eOut) = Len(Shown(eText))
                        + Cardinality({k \in 1..Len(eText) : eText[k] \in {92, 40, 41, 13, 10}})

C19_Witness ==
    /\ epc = "done"
    /\ eText = <<92, 9, 233>>
    /\ eOut = <<92, 92, 32, 32, 32, 32>>

---------------------------------------------------------------------------
(* Font selection in the content streams.                                  *)

\* the font name that a Tf operator line selects
TfName(l) ==
    IF HasPrefix(l, <<47, 70, 49, 32>>) THEN "/F1"
    ELSE IF HasPrefix(l, <<47, 70, 50, 32>>) THEN "/F2"
    ELSE "?"

\* the size that a Tf operator line selects, in tenths of a point
TfSize(l) ==
    LET d == DigitsAt(l, 4)
    IN  NatAt(l, 4) * 10 + (l[4 + d + 2] - 48)

\* C20: in the content stream of each page, read back from the file, a Tf
\* operator stands right before a run (before its Tm and Tj) exactly when the
\* run is the first of the page or its font name or size differs from the
\* run before it; so at every Tj the font and size selected last in that
\* stream are those of the run shown, and no page relies on what an earlier
\* page's stream selected
C20_FontSelection ==
    Written =>
        \A p \in 1..Len(pages) :
            LET ops == SplitLines(inflate(StreamBytes(buf, p - 1)).data)
                runs == pages[p]
                IsTf(n) == HasSuffix(ops[n], <<32, 84, 102>>)
                tj == {n \in 1..Len(ops) : HasSuffix(ops[n], <<41, 32, 84, 106>>)}
                tf == {n \in 1..Len(ops) : IsTf(n)}
                TjOf(k) == CHOOSE n \in tj : Cardinality({m \in tj : m < n}) = k - 1
                Differs(k) == \/ k = 1
                              \/ runs[k].fontName # runs[k - 1].fontName
                              \/ runs[k].fontSize # runs[k - 1].fontSize
                Selected(n) == CHOOSE m \in tf : m < n /\ \A o \in tf : o < n => o <= m
            IN  /\ Cardinality(tj) = Len(runs)
                /\ Cardinality(tf) = Cardinality({k \in 1..Len(runs) : Differs(k)})
                /\ \A k \in 1..Len(runs) :
                      LET t == TjOf(k)
                      IN  /\ t >= 3
                          /\ HasSuffix(ops[t - 1], <<32, 84, 109>>)
                          /\ IsTf(t - 2) <=> Differs(k)
                          /\ \E m \in tf : m < t
                          /\ TfName(ops[Selected(t)]) = runs[k].fontName
                          /\ TfSize(ops[Selected(t)]) = runs[k].fontSize

\* two pages are written; the second begins with a run in the font and size
\* in which the first ends, and holds a run in the font of the run before it
C20_Witness ==
    /\ pc = "done"
    /\ ioErr = "nil"
    /\ Len(pages) = 2
    /\ Len(pages[2]) >= 2
    /\ pages[2][1].fontName = pages[1][Len(pages[1])].fontName
    /\ pages[2][1].fontSize = pages[1][Len(pages[1])].fontSize
    /\ pages[2][2].fontName = pages[2][1].fontName
    /\ pages[2][2].fontSize = pages[2][1].fontSize
    /\ HasPrefix(inflate(StreamBytes(file, 1)).data, <<66, 84, 10, 47, 70>>)

---------------------------------------------------------------------------
(* Blocks without lines.                                                   *)

\* the loop over the blocks is at a block whose text is empty or white space
AtBlankBlock ==
    /\ pc = "layout"
    /\ bi <= Len(blocks)
    /\ \A k \in 1..Len(blocks[bi].text) : IsSpace(blocks[bi].text[k])

\* the number of runs on all pages
RunCount(pp) == Len(RunTexts(pp, 1, Len(pp)))

\* C21: a block that wraps to zero lines (its text is empty or white space)
\* adds no run and starts no page; it advances y by exactly its
\* spacing-before when a page exists, and leaves y and the document as they
\* are when there is no page yet; the loop goes on with the next block
C21_BlankBlock ==
    [][ AtBlankBlock =>
          /\ pages' = pages
          /\ RunCount(pages') = RunCount(pages)
          /\ y' = IF Len(pages) > 0 THEN y + blocks[bi].spaceBefore ELSE y
          /\ bi' = bi + 1
          /\ pc' = "layout" ]_vars

\* a block without lines has been passed on the first page, below a run, and
\* y stands its spacing-before (2 mm) below the bottom of that run
C21_Witness ==
    /\ pc = "layout"
    /\ bi > 1
    /\ blocks[bi - 1].text = <<>>
    /\ blocks[bi - 1].spaceBefore = 80
    /\ Len(pages) = 1
    /\ Len(pages[1]) = 1
    /\ y = (297 * 40 - pages[1][1].y \div ptPerU)
           + (pages[1][1].fontSize * 9) \div 5 + 80

---------------------------------------------------------------------------
(* The title heuristic fires once.                                         *)

\* the step is one iteration of parseContent's loop
ParsesLine == pc = "parse" /\ i' = i + 1

\* the blocks of bs in the Title style (the bold font /F2 at 18 pt)
TitleBlocks(bs) ==
    { k \in 1..Len(bs) : bs[k].style.fontSize = 180 /\ bs[k].style.fontName = "/F2" }

\* the step appends a block in the Title style
AppendsTitle == TitleBlocks(blocks') # TitleBlocks(blocks)

\* line k (1-based) is empty or white space
BlankLine(k) == \A n \in 1..Len(lines[k]) : IsSpace(lines[k][n])

\* C22 as stated: the heuristic fires at most once per input and only for
\* line index 0; a line at an index greater than 0 is never given the Title
\* style, whatever blank lines precede it
C22_TitleOnlyAtIndexZero ==
    [][ ParsesLine =>
          /\ Cardinality(TitleBlocks(blocks')) <= 1
          /\ AppendsTitle => i = 0 ]_vars

\* C22, amended: the heuristic fires at most once per input and only for
\* the first non-blank line; a line that comes after a non-blank line is
\* never given the Title style, whatever blank lines precede it
C22_TitleOnlyFirstContent ==
    [][ ParsesLine =>
          /\ Cardinality(TitleBlocks(blocks')) <= 1
          /\ AppendsTitle => \A k \in 1..i : BlankLine(k) ]_vars

\* the heuristic has fired for the third line, two blank lines preceding it,
\* and a later line that is short and followed by a blank line was parsed
\* without a second Title block
C22_Witness ==
    /\ Parsed
    /\ Len(lines) >= 6
    /\ BlankLine(1) /\ BlankLine(2) /\ ~BlankLine(3)
    /\ ~BlankLine(5) /\ Len(lines[5]) < 60 /\ BlankLine(6)
    /\ TitleBlocks(blocks) = {1}

---------------------------------------------------------------------------
(* Spacing before headings.                                                *)

\* the heading level of a block: 1 to 3 for the bold styles of 16, 14 and
\* 12 pt, 0 for every other block
LevelOf(b) ==
    IF b.style.fontName # "/F2" THEN 0
    ELSE CASE b.style.fontSize = 160 -> 1
           [] b.style.fontSize = 140 -> 2
           [] b.style.fontSize = 120 -> 3
           [] OTHER -> 0

\* blocks in the body, bullet or numbered style (the regular font)
IsPlain(b) == b.style.fontName = "/F1"

\* C23 as stated: every level has one spacing-before, the value increases
\* with the level (H1 < H2 < H3), and every heading has more of it than
\* every body, bullet or numbered block
C23_SpacingRisesWithLevel ==
    \A a \in 1..Len(blocks) : LevelOf(blocks[a]) > 0 =>
        \A b \in 1..Len(blocks) :
            /\ LevelOf(blocks[a]) = LevelOf(blocks[b])
                  => blocks[a].spaceBefore = blocks[b].spaceBefore
            /\ LevelOf(blocks[a]) < LevelOf(blocks[b])
                  => blocks[a].spaceBefore < blocks[b].spaceBefore
            /\ IsPlain(blocks[b]) => blocks[a].spaceBefore > blocks[b].spaceBefore

\* C23, amended: every level has one spacing-before (6, 5 and 4 mm), the
\* value decreases as the level number grows (H1 > H2 > H3), and every
\* heading has more of it than every body, bullet or numbered block
C23_SpacingFallsWithLevel ==
    \A a \in 1..Len(blocks) : LevelOf(blocks[a]) > 0 =>
        /\ blocks[a].spaceBefore = 280 - 40 * LevelOf(blocks[a])
        /\ \A b \in 1..Len(blocks) :
              /\ LevelOf(blocks[a]) < LevelOf(blocks[b])
                    => blocks[a].spaceBefore > blocks[b].spaceBefore
              /\ IsPlain(blocks[b]) => blocks[a].spaceBefore > blocks[b].spaceBefore

\* an input has been parsed into headings of all three levels, two of them
\* of the first and two of the third, and body, bullet, numbered and spacing
\* blocks
C23_Witness ==
    /\ Parsed
    /\ \A l \in 1..3 : \E k \in 1..Len(blocks) : LevelOf(blocks[k]) = l
    /\ Cardinality({k \in 1..Len(blocks) : LevelOf(blocks[k]) = 1}) = 2
    /\ Cardinality({k \in 1..Len(blocks) : LevelOf(blocks[k]) = 3}) = 2
    /\ {blocks[k].style.indent : k \in {n \in 1..Len(blocks) : IsPlain(blocks[n])}} = {0, 320}
    /\ \E k \in 1..Len(blocks) : blocks[k].text = <<>>

---------------------------------------------------------------------------
(* The EventBus: Subscribe, Unsubscribe and Publish, each under eb.mu and   *)
(* so one step each.                                                       *)

MaxBusOps == 4     \* calls made on the bus

\* the payloads that are published
BusData == {"d"}

\* &h == &handler in Unsubscribe: h is the variable of the range loop and
\* handler the parameter, each holding a copy of a function value; the
\* operands are the addresses of these two variables, named here by the
\* variables, whatever functions h and handler hold
handlerMatches(h, handler) == "&h" = "&handler"

\* the first index of hs at which the test of Unsubscribe holds, 0 if none
matchIndex(hs, handler) ==
    LET m == {k \in 1..Len(hs) : handlerMatches(hs[k], handler)}
    IN  IF m = {} THEN 0 ELSE CHOOSE k \in m : \A n \in m : k <= n

\* append(handlers[:i], handlers[i+1:]...)
removeAt(hs, k) == SubSeq(hs, 1, k - 1) \o SubSeq(hs, k + 1, Len(hs))

InitBus ==
    /\ ExportIdle(<<>>, "idle")
    /\ WrapIdle("idle", <<>>, 0, 0)
    /\ TwoIdle
    /\ EscIdle("idle", <<>>)
    /\ AppIdle

\* eb.handlers[event] = append(eb.handlers[event], handler)
Subscribe(event, handler) ==
    /\ Len(busLog) < MaxBusOps
    /\ handlers' = [handlers EXCEPT ![event] = Append(@, handler)]
    /\ busLog' = Append(busLog, [op |-> "Subscribe", event |-> event, arg |-> handler])
    /\ UNCHANGED started
    /\ UNCHANGED notBus

\* the loop over eb.handlers[event], which removes the handler at the first
\* index where the test holds and leaves the slice as it is when there is none
Unsubscribe(event, handler) ==
    /\ Len(busLog) < MaxBusOps
    /\ LET hs == handlers[event]
           k == matchIndex(hs, handler)
       IN  handlers' = [handlers EXCEPT ![event] = IF k = 0 THEN hs ELSE removeAt(hs, k)]
    /\ busLog' = Append(busLog, [op |-> "Unsubscribe", event |-> event, arg |-> handler])
    /\ UNCHANGED started
    /\ UNCHANGED notBus

\* go handler(data) for every handler of the event, in order
Publish(event, data) ==
    /\ Len(busLog) < MaxBusOps
    /\ started' = started \o
           [k \in 1..Len(handlers[event]) |->
               [event |-> event, handler |-> handlers[event][k], data |-> data,
                call |-> Len(busLog) + 1]]
    /\ busLog' = Append(busLog, [op |-> "Publish", event |-> event, arg |-> data])
    /\ UNCHANGED handlers
    /\ UNCHANGED notBus

NextBus ==
    \/ \E event \in Events, handler \in HandlerPool : Subscribe(event, handler)
    \/ \E event \in Events, handler \in HandlerPool : Unsubscribe(event, handler)
    \/ \E event \in Events, data \in BusData : Publish(event, data)

SpecBus == InitBus /\ [][NextBus]_vars

---------------------------------------------------------------------------
(* Unsubscribing.                                                          *)

\* the calls of busLog that are op(event, arg)
CallsOf(op, event, arg) ==
    { n \in 1..Len(busLog) : busLog[n] = [op |-> op, event |-> event, arg |-> arg] }

\* handler h was subscribed to event e once, by call a, and unsubscribed
\* from it by the later call b
SubscribedThenUnsubscribed(e, h, a, b) ==
    /\ CallsOf("Subscribe", e, h) = {a}
    /\ b \in CallsOf("Unsubscribe", e, h)
    /\ a < b

\* the handlers of hs other than h, in order
Others(hs, h) == SelectSeq(hs, LAMBDA x : x # h)

\* C24: after Subscribe(event, h) followed by Unsubscribe(event, h) the
\* handler h is not registered for the event, and no Publish of the event
\* made after that starts h; an Unsubscribe leaves the other handlers of the
\* event, and their order, as they are
C24_UnsubscribeUnregisters ==
    /\ [](\A e \in Events, h \in HandlerPool : \A a, b \in 1..Len(busLog) :
            SubscribedThenUnsubscribed(e, h, a, b) =>
                /\ \A k \in 1..Len(handlers[e]) : handlers[e][k] # h
                /\ \A k \in 1..Len(started) :
                      (started[k].event = e /\ started[k].handler = h)
                          => started[k].call < b)
    /\ [][ \A e \in Events, h \in HandlerPool :
             (Len(busLog') > Len(busLog)
                /\ busLog'[Len(busLog')] = [op |-> "Unsubscribe", event |-> e, arg |-> h])
                 => Others(handlers'[e], h) = Others(handlers[e], h) ]_vars

---------------------------------------------------------------------------
(* Generation requests: GenerateWithOllamaStream, the goroutine it starts,  *)
(* and StopGeneration.  A call is named by its index in gens, and the       *)
(* cancel function it makes by the same index.  The frontend's calls each   *)
(* run on a goroutine of their own, and App.activeRequests has no lock.     *)

MaxGens == 2       \* calls of GenerateWithOllamaStream
MaxChunks == 1     \* chunks the server sends on one response

\* a.EventBus.Publish(ev, ...) by the goroutine of call g
publish(g, ev) == [g EXCEPT !.published = Append(@, ev)]

\* Publish followed by return: what is left is the deferred delete
finish(g, ev) == [publish(g, ev) EXCEPT !.pc = "cleanup"]

\* a chunk without an error published, the loop going on after a last chunk
chunkStepNoReturn(g, done) ==
    IF done THEN [publish(publish(g, "ai.stream.chunk"), "ai.stream.done") EXCEPT !.pc = "select"]
    ELSE [publish(g, "ai.stream.chunk") EXCEPT !.pc = "select"]

\* a chunk without an error: Publish("ai.stream.chunk"), then, if chunk.Done,
\* Publish("ai.stream.done") and return, else the next iteration
chunkStep(g, done) ==
    IF done THEN finish(publish(g, "ai.stream.chunk"), "ai.stream.done")
    ELSE [publish(g, "ai.stream.chunk") EXCEPT !.pc = "select"]

\* the chunks the goroutine of g has published
ChunksOf(g) == Len(SelectSeq(g.published, LAMBDA ev : ev = "ai.stream.chunk"))

InitGen ==
    /\ ExportIdle(<<>>, "idle")
    /\ WrapIdle("idle", <<>>, 0, 0)
    /\ TwoIdle
    /\ EscIdle("idle", <<>>)
    /\ AppIdle

\* GenerateWithOllamaStream(requestID, ...) up to the registration: the
\* server check fails and the call returns an error, or the call goes on
GenCall(r) ==
    /\ Len(gens) < MaxGens
    /\ \E p \in {"failed", "register"} :
          gens' = Append(gens, [requestID |-> r, pc |-> p, cancelled |-> FALSE,
                                published |-> <<>>])
    /\ UNCHANGED activeRequests
    /\ UNCHANGED notGen

\* a.activeRequests[requestID] = cancel, the request built (it cannot fail on
\* these constant arguments), the goroutine started, nil returned
GenRegister(k) ==
    /\ gens[k].pc = "register"
    /\ activeRequests' = [activeRequests EXCEPT ![gens[k].requestID] = k]
    /\ gens' = [gens EXCEPT ![k].pc = "do"]
    /\ UNCHANGED notGen

\* client.Do(req): with the context cancelled it fails and "done" is
\* published; otherwise it fails and "error" is published, or it succeeds
GenDo(k) ==
    /\ gens[k].pc = "do"
    /\ IF gens[k].cancelled
       THEN gens' = [gens EXCEPT ![k] = finish(@, "ai.stream.done")]
       ELSE \/ gens' = [gens EXCEPT ![k] = finish(@, "ai.stream.error")]
            \/ gens' = [gens EXCEPT ![k].pc = "select"]
    /\ UNCHANGED activeRequests
    /\ UNCHANGED notGen

\* select: case <-ctx.Done() publishes "done" and returns, default goes on
GenSelect(k) ==
    /\ gens[k].pc = "select"
    /\ IF gens[k].cancelled
       THEN gens' = [gens EXCEPT ![k] = finish(@, "ai.stream.done")]
       ELSE gens' = [gens EXCEPT ![k].pc = "decode"]
    /\ UNCHANGED activeRequests
    /\ UNCHANGED notGen

\* decoder.Decode(&chunk) and what follows it: end of stream, a read error
\* (taken as the cancellation when the context is cancelled by now), a chunk
\* that carries an error, a chunk, or the last chunk
GenDecode(k) ==
    /\ gens[k].pc = "decode"
    /\ \/ gens' = [gens EXCEPT ![k] = finish(@, "ai.stream.done")]
       \/ gens' = [gens EXCEPT ![k] =
                     finish(@, IF @.cancelled THEN "ai.stream.done" ELSE "ai.stream.error")]
       \/ gens' = [gens EXCEPT ![k] = finish(@, "ai.stream.error")]
       \/ /\ ChunksOf(gens[k]) < MaxChunks
          /\ \E done \in BOOLEAN : gens' = [gens EXCEPT ![k] = chunkStep(@, done)]
    /\ UNCHANGED activeRequests
    /\ UNCHANGED notGen

\* the deferred delete(a.activeRequests, requestID) of the goroutine
GenCleanup(k) ==
    /\ gens[k].pc = "cleanup"
    /\ activeRequests' = [activeRequests EXCEPT ![gens[k].requestID] = 0]
    /\ gens' = [gens EXCEPT ![k].pc = "ended"]
    /\ UNCHANGED notGen

\* StopGeneration(requestID) when the map holds an entry: cancel(), delete
StopGeneration(r) ==
    /\ activeRequests[r] # 0
    /\ gens' = [gens EXCEPT ![activeRequests[r]].cancelled = TRUE]
    /\ activeRequests' = [activeRequests EXCEPT ![r] = 0]
    /\ UNCHANGED notGen

\* The map write of call k (at 657 or in the deferred delete) overlaps with
\* the map access of another goroutine: a StopGeneration call, or the write
\* of another call or stream.  The runtime may then stop the process with
\* "fatal error: concurrent map writes", which ends every goroutine.
MapFault(k) ==
    /\ gens[k].pc \in {"register", "cleanup"}
    /\ gens' = [j \in 1..Len(gens) |->
                  IF gens[j].pc \in {"failed", "ended"} THEN gens[j]
                  ELSE [gens[j] EXCEPT !.pc = "crashed"]]
    /\ UNCHANGED activeRequests
    /\ UNCHANGED notGen

NextGen ==
    \/ \E r \in RequestIDs : GenCall(r)
    \/ \E k \in 1..Len(gens) : GenRegister(k)
    \/ \E k \in 1..Len(gens) : GenDo(k)
    \/ \E k \in 1..Len(gens) : GenSelect(k)
    \/ \E k \in 1..Len(gens) : GenDecode(k)
    \/ \E k \in 1..Len(gens) : GenCleanup(k)
    \/ \E r \in RequestIDs : StopGeneration(r)
    \/ \E k \in 1..Len(gens) : MapFault(k)

SpecGen == InitGen /\ [][NextGen]_vars

---------------------------------------------------------------------------
(* Stopping a generation.                                                  *)

\* the goroutine of call k is running its stream and has not been cancelled
Streaming(k) == gens[k].pc \in {"do", "select", "decode"} /\ ~gens[k].cancelled

\* C25: whenever a stream started under requestID r is running and not yet
\* cancelled, activeRequests[r] holds the cancel function of that stream, so
\* that StopGeneration(r) cancels it, also when r is used again while an
\* earlier stream under r is running; and a stream that ends removes from
\* the map no entry but its own
C25_StopCancelsActive ==
    /\ [](\A k \in 1..Len(gens) : Streaming(k) => activeRequests[gens[k].requestID] = k)
    /\ [][ \A k \in 1..Len(gens) :
             (gens[k].pc = "cleanup" /\ gens'[k].pc = "ended") =>
                 \A r \in RequestIDs :
                     activeRequests'[r] # activeRequests[r] => activeRequests[r] = k ]_vars

---------------------------------------------------------------------------
(* The events of one stream.                                               *)

\* the positions of the terminal events among the events p
Terminals(p) == { n \in 1..Len(p) : p[n] \in {"ai.stream.done", "ai.stream.error"} }

\* C29: the goroutine of a call that returned nil publishes at most one
\* terminal event ("ai.stream.done" or "ai.stream.error"), it publishes no
\* chunk after it, and it has published exactly one when the response has
\* ended, whichever way it ended; before that it has published none
C29_OneTerminalEvent ==
    \A k \in 1..Len(gens) :
        LET p == gens[k].published
        IN  /\ Cardinality(Terminals(p)) <= 1
            /\ \A n \in Terminals(p) : n = Len(p)
            /\ gens[k].pc \in {"cleanup", "ended"} => Cardinality(Terminals(p)) = 1
            /\ gens[k].pc \in {"register", "failed", "do", "select", "decode"} => Terminals(p) = {}

\* two streams have ended: one was sent a last chunk, the other was
\* cancelled by StopGeneration before any chunk
C29_Witness ==
    /\ Len(gens) = 2
    /\ gens[1].pc = "ended"
    /\ gens[1].published = <<"ai.stream.chunk", "ai.stream.done">>
    /\ gens[2].pc = "ended"
    /\ gens[2].cancelled
    /\ gens[2].published = <<"ai.stream.done">>

---------------------------------------------------------------------------
(* No empty page.                                                          *)

\* C26: every page of the document holds at least one run.  A page is added
\* only on the way to placing a line on it: while the first line of a block
\* is still to be placed the last page may be the one just added, and in
\* every other state, the document that is written included, no page is empty
C26_NoEmptyPage ==
    /\ \A p \in 1..(Len(pages) - 1) : Len(pages[p]) > 0
    /\ (Len(pages) > 0 /\ pages[Len(pages)] = <<>>) => (pc = "lines" /\ li = 1)
    /\ Written => \A p \in 1..Len(pages) : Len(pages[p]) > 0

\* the spacing of a run of blank lines has carried y below the bottom
\* margin (and below the page) while the document still has its one page,
\* which holds the run placed before them
C26_Witness ==
    /\ pc = "layout"
    /\ bi > 1
    /\ bi <= Len(blocks)
    /\ blocks[bi].text # <<>>
    /\ blocks[bi - 1].text = <<>>
    /\ y > 297 * 40
    /\ Len(pages) = 1
    /\ Len(pages[1]) = 1

---------------------------------------------------------------------------
(* Runs and margins.                                                       *)

\* the top-down position at which a run was placed, in U: its PDF y is
\* (297 mm - y) in points
RunTop(run) == 297 * 40 - run.y \div ptPerU

\* the height of the line of a run, in U: 0.45 mm per point of its font
RunHeight(run) == (run.fontSize * 9) \div 5

\* C27: every run is placed inside the vertical margins, its top at or
\* below the top margin (25 mm) and its bottom at or above the bottom margin
\* (297 - 25 mm), and on one page each run is placed strictly lower than the
\* run before it
C27_RunsInsideMargins ==
    \A p \in 1..Len(pages) : \A k \in 1..Len(pages[p]) :
        /\ pages[p][k].y = (297 * 40 - RunTop(pages[p][k])) * ptPerU
        /\ 25 * 40 <= RunTop(pages[p][k])
        /\ RunTop(pages[p][k]) + RunHeight(pages[p][k]) <= 297 * 40 - 25 * 40
        /\ k > 1 => /\ RunTop(pages[p][k - 1]) < RunTop(pages[p][k])
                    /\ pages[p][k - 1].y > pages[p][k].y

\* the last run of the first page ends exactly at the bottom margin, and the
\* run after it stands at the top margin of the second page
C27_Witness ==
    /\ LaidOut
    /\ Len(pages) >= 2
    /\ LET last == pages[1][Len(pages[1])]
       IN  RunTop(last) + RunHeight(last) = 297 * 40 - 25 * 40
    /\ RunTop(pages[2][1]) = 25 * 40

---------------------------------------------------------------------------
(* Layout keeps the text.                                                  *)

\* the lines that the loop over the blocks has placed so far: those of the
\* blocks before block bi, and the first li - 1 of block bi
LinesPlaced ==
    LET OfBlock(k) == blockLines(blocks[k])
    IN  Cat(OfBlock, 1, bi - 1)
        \o (IF pc = "lines" THEN SubSeq(curLines, 1, li - 1) ELSE <<>>)

\* the words of the texts ts, text by text
WordsOfAll(ts) ==
    LET OfText(k) == splitWords(ts[k])
    IN  Cat(OfText, 1, Len(ts))

\* C28: layout loses, duplicates and reorders nothing.  The texts of the
\* runs, read page by page, are at every moment the lines of wrapText placed
\* so far, in the order of the blocks; when the loop has ended they are the
\* lines of all blocks, and their words are the words of the block texts in
\* the original order, each once, also for a block split across pages
C28_LayoutKeepsText ==
    /\ RunTexts(pages, 1, Len(pages)) = LinesPlaced
    /\ LaidOut =>
          /\ bi = Len(blocks) + 1
          /\ WordsOfAll(RunTexts(pages, 1, Len(pages)))
                = WordsOfAll([k \in 1..Len(blocks) |-> blocks[k].text])

\* the 1000 words of one paragraph have been laid out on two pages, after a
\* heading on a page of its own
C28_Witness ==
    /\ LaidOut
    /\ Len(blocks) = 2
    /\ Len(pages) = 3
    /\ Len(pages[2]) > 1
    /\ Len(pages[3]) > 1
    /\ Len(splitWords(blocks[2].text)) = 1000
    /\ Len(WordsOfAll(RunTexts(pages, 2, 3))) = 1000

---------------------------------------------------------------------------
(* The FileManager's list of recent files.  Paths are named by numbers; the  *)
(* calls are made one after another, as a script lists them.               *)

MaxFileOps == 3        \* calls of a short script
maxRecentFiles == 10   \* FileManager.maxRecentFiles, set by NewFileManager

\* the calls a short script is made of: ReadFile and WriteFile on two paths,
\* succeeding or failing before the list is touched, and ClearRecentFiles
FileOps ==
    [op : {"ReadFile", "WriteFile"}, path : {1, 2}, ok : BOOLEAN]
    \cup {[op |-> "ClearRecentFiles", path |-> 0, ok |-> TRUE]}

\* twelve paths opened and saved in turn, then path 5 (in the middle of the
\* list by then), path 1 (dropped from it by then) and path 1 again (at its
\* front), then the list cleared and path 7 opened
LongFileScript ==
    [k \in 1..12 |-> [op |-> IF k % 2 = 1 THEN "ReadFile" ELSE "WriteFile",
                      path |-> k, ok |-> TRUE]]
    \o <<[op |-> "ReadFile", path |-> 5, ok |-> TRUE],
         [op |-> "WriteFile", path |-> 1, ok |-> TRUE],
         [op |-> "ReadFile", path |-> 1, ok |-> TRUE],
         [op |-> "ClearRecentFiles", path |-> 0, ok |-> TRUE],
         [op |-> "ReadFile", path |-> 7, ok |-> TRUE]>>

FileScripts ==
    UNION { [1..n -> FileOps] : n \in 0..MaxFileOps } \cup {LongFileScript}

\* the first index of rf that holds filePath, 0 if none
indexOfPath(rf, filePath) ==
    LET m == {k \in 1..Len(rf) : rf[k] = filePath}
    IN  IF m = {} THEN 0 ELSE CHOOSE k \in m : \A n \in m : k <= n

\* addToRecentFiles without the removal of the path it adds
addToRecentFilesKept(rf, filePath) ==
    LET added == <<filePath>> \o rf
    IN  IF Len(added) > maxRecentFiles THEN SubSeq(added, 1, maxRecentFiles) ELSE added

\* addToRecentFiles: the path removed where it stands first, put in front,
\* the list cut to maxRecentFiles
addToRecentFiles(rf, filePath) ==
    LET k == indexOfPath(rf, filePath)
        removed == IF k = 0 THEN rf ELSE removeAt(rf, k)
        added == <<filePath>> \o removed
    IN  IF Len(added) > maxRecentFiles THEN SubSeq(added, 1, maxRecentFiles) ELSE added

InitFile ==
    /\ ExportIdle(<<>>, "idle")
    /\ WrapIdle("idle", <<>>, 0, 0)
    /\ TwoIdle
    /\ EscIdle("idle", <<>>)
    /\ BusIdle
    /\ GenIdle
    /\ \E script \in FileScripts : FileIdle(script)

\* the call that is made next
NextCall == fileScript[filePos + 1]

\* saveRecentFiles, whose error its callers drop: the file holds the list,
\* or is left as it was
Saved(rf) == savedRecent' \in {rf, savedRecent}

\* ReadFile(path): an error from os.Open, Stat or the reading returns
\* before the list is touched; otherwise addToRecentFiles, which saves
ReadFile ==
    /\ filePos < Len(fileScript)
    /\ NextCall.op = "ReadFile"
    /\ IF NextCall.ok
       THEN /\ recentFiles' = addToRecentFiles(recentFiles, NextCall.path)
            /\ Saved(recentFiles')
       ELSE UNCHANGED <<recentFiles, savedRecent>>
    /\ filePos' = filePos + 1
    /\ UNCHANGED fileScript
    /\ UNCHANGED notFile

\* WriteFile(path, ...): an error from os.WriteFile or os.Stat returns
\* before the list is touched; otherwise addToRecentFiles, which saves
WriteRecent ==
    /\ filePos < Len(fileScript)
    /\ NextCall.op = "WriteFile"
    /\ IF NextCall.ok
       THEN /\ recentFiles' = addToRecentFiles(recentFiles, NextCall.path)
            /\ Saved(recentFiles')
       ELSE UNCHANGED <<recentFiles, savedRecent>>
    /\ filePos' = filePos + 1
    /\ UNCHANGED fileScript
    /\ UNCHANGED notFile

\* ClearRecentFiles: a new empty list, saved
ClearRecentFiles ==
    /\ filePos < Len(fileScript)
    /\ NextCall.op = "ClearRecentFiles"
    /\ recentFiles' = <<>>
    /\ Saved(recentFiles')
    /\ filePos' = filePos + 1
    /\ UNCHANGED fileScript
    /\ UNCHANGED notFile

NextFile == ReadFile \/ WriteRecent \/ ClearRecentFiles

SpecFile == InitFile /\ [][NextFile]_vars

---------------------------------------------------------------------------
(* The list of recent files.                                               *)

\* the step is a call of ReadFile or WriteFile that reaches addToRecentFiles
AddsRecent ==
    /\ filePos' = filePos + 1
    /\ NextCall.op \in {"ReadFile", "WriteFile"}
    /\ NextCall.ok

\* C30: starting from the empty list, after any sequence of adds (through
\* ReadFile or WriteFile) and ClearRecentFiles calls the list holds no path
\* twice and has at most 10 entries; after an add its first entry is the
\* path just added, and the entries after it are the other entries of the
\* list before the add, in their order, as many as fit in the 10
C30_RecentFiles ==
    /\ [](/\ Len(recentFiles) <= 10
          /\ \A a, b \in 1..Len(recentFiles) : a # b => recentFiles[a] # recentFiles[b])
    /\ [][ AddsRecent =>
             LET rest == Others(recentFiles, NextCall.path)
             IN  /\ recentFiles'[1] = NextCall.path
                 /\ Tail(recentFiles')
                       = SubSeq(rest, 1, IF Len(rest) > 9 THEN 9 ELSE Len(rest)) ]_vars

\* twelve paths were added, then path 5 from the middle of the list and path
\* 1, which the list had dropped, twice: the list is full, path 1 is in
\* front, path 5 follows it, and paths 2 and 3 are no longer in it
C30_Witness ==
    /\ filePos = 15
    /\ Len(recentFiles) = 10
    /\ recentFiles[1] = 1
    /\ recentFiles[2] = 5
    /\ recentFiles[3] = 12
    /\ recentFiles[10] = 4
    /\ \A k \in 1..10 : recentFiles[k] \notin {2, 3}

=============================================================================
